---- MODULE Spec2Model ----
(***************************************************************************)
(* Bordereaux ingestion and processing pipeline: the storage layer         *)
(* (content-addressed save, delete), the mailbox poller, the upload,       *)
(* reprocess and delete requests, the batch job and the process_file       *)
(* orchestrator with validation and persistence.                           *)
(*                                                                         *)
(* Three processes share the database and the file store: the HTTP server  *)
(* ("http": the handlers are coroutines without suspension points between  *)
(* their database calls, so requests are served one at a time), the        *)
(* mailbox poller ("poller") and the batch job ("batch").  A step of the   *)
(* model is one database commit (with the reads and file-system calls that *)
(* precede it in the code).                                                *)
(***************************************************************************)
EXTENDS Integers, Sequences, FiniteSets, TLC

VARIABLES
    files,      \* table bordereaux_files: id -> row
    disk,       \* stored files under storage_base_path (set of paths)
    rows,       \* table bordereaux_rows
    errors,     \* table bordereaux_validation_errors
    proposals,  \* files templates/proposals/proposal_{file_id}_{ts}.json
    templates,  \* table templates (sequence, in id order)
    sidecars,   \* files {templates_dir}/{template_id}.json: template_id -> content
    seen,       \* mailbox messages flagged SEEN
    w,          \* per process: the operation it runs and its local variables
    nops,       \* operations and failures of the environment still to come
    nruns,      \* process_file calls so far (stands for the clock of a run)
    ret,        \* what the last poll and the last batch run returned
    lastSave    \* the most recent return of save_raw_file (history)

vars == <<files, disk, rows, errors, proposals, templates, sidecars, seen, w, nops, nruns, ret, lastSave>>

(***************************************************************************)
(* Bounds                                                                  *)
(***************************************************************************)
MaxOps == 3

(***************************************************************************)
(* Values                                                                  *)
(***************************************************************************)
None == <<>>
Some(v) == <<v>>

Workers == {"http", "poller", "batch"}

\* FileStatus
PENDING == "pending"
RECEIVED == "received"
NEW_TEMPLATE_REQUIRED == "new_template_required"
PROCESSING == "processing"
PROCESSED_OK == "processed_ok"
PROCESSED_WITH_ERRORS == "processed_with_errors"
COMPLETED == "completed"
FAILED == "failed"

FileStatus == {PENDING, RECEIVED, NEW_TEMPLATE_REQUIRED, PROCESSING,
               PROCESSED_OK, PROCESSED_WITH_ERRORS, COMPLETED, FAILED}

\* Canonical fields the validation rules read.
CanonicalFields == {"policy_number", "inception_date", "expiry_date",
                    "premium_amount", "claim_amount", "commission_amount",
                    "net_premium"}

(***************************************************************************)
(* The byte sequences that reach the system.  Each stands for one file:    *)
(*   ok   Policy Number,Premium / POL1,100                                 *)
(*   bad  Policy Number,Premium / POL1,100 / POL2,-5 / (blank),-7          *)
(*   odd  PolNo,Prem / P9,10                                               *)
(*   junk bytes no parser decodes                                          *)
(***************************************************************************)
Contents == {"ok", "bad", "odd", "junk"}
UploadContents == {"ok", "bad", "odd"}

\* The mailbox: message id -> subject and allow-listed attachments.  The
\* second message carries none (a text, or a file of a type not allowed).
Mailbox == <<[subject |-> "Claims March", atts |-> <<"junk", "bad">>],
             [subject |-> "Report", atts |-> <<>>]>>

\* The messages that are read already when the system starts.
ReadAtStart == {2}

WebUploadSubject == "Web Upload"

Parseable(c) == c # "junk"

\* Source header spellings of a file, in column order.
SourceHeaders(c) ==
    CASE c \in {"ok", "bad"} -> <<"Policy Number", "Premium">>
      [] c = "odd" -> <<"PolNo", "Prem">>
      [] OTHER -> <<>>

\* Source rows of a file: column position -> cell (None is an empty cell).
SourceRows(c) ==
    CASE c = "ok" -> << <<Some("POL1"), Some(100)>> >>
      [] c = "bad" -> << <<Some("POL1"), Some(100)>>,
                         <<Some("POL2"), Some(-5)>>,
                         <<Some(""), Some(-7)>> >>
      [] c = "odd" -> << <<Some("P9"), Some(10)>> >>
      [] OTHER -> <<>>

\* _normalize_column_name on the spellings that occur.
NormalizeColumnName(name) ==
    CASE name = "Policy Number" -> "policy_number"
      [] name = "Premium" -> "premium"
      [] name = "PolNo" -> "polno"
      [] name = "Prem" -> "prem"
      [] name = "Insured Name" -> "insured_name"
      [] name = "Inception Date" -> "inception_date"
      [] name = "Expiry Date" -> "expiry_date"
      [] name = "Premium Amount" -> "premium_amount"
      [] name = "Currency" -> "currency"
      [] name = "Claim Amount" -> "claim_amount"
      [] name = "Commission Amount" -> "commission_amount"
      [] name = "Net Premium" -> "net_premium"
      [] name = "Broker" -> "broker"
      [] name = "Region" -> "region"
      [] name = "Unknown Column 1" -> "unknown_column_1"
      [] name = "Unknown Column 2" -> "unknown_column_2"
      [] OTHER -> name

\* parse_file: the headers of the parsed table (normalized).
Headers(c) == [i \in 1..Len(SourceHeaders(c)) |-> NormalizeColumnName(SourceHeaders(c)[i])]

SeqRange(s) == {s[i] : i \in 1..Len(s)}

\* The subjects that occur: those of the mailbox and of an upload, a subject
\* with two of the words, one in capitals, one with none of the words, none.
Subjects == {"Claims March", "Premium and Claims", "Premium Q1", "Exposure", "Web Upload", "CLAIM", "exposure of premium", "Report", ""}

\* A subject character by character.
Spelling(subject) ==
    CASE subject = "Claims March" ->
             <<"C", "l", "a", "i", "m", "s", " ", "M", "a", "r", "c", "h">>
      [] subject = "Premium and Claims" ->
             <<"P", "r", "e", "m", "i", "u", "m", " ", "a", "n", "d", " ", "C", "l", "a", "i", "m", "s">>
      [] subject = "Premium Q1" ->
             <<"P", "r", "e", "m", "i", "u", "m", " ", "Q", "1">>
      [] subject = "Exposure" ->
             <<"E", "x", "p", "o", "s", "u", "r", "e">>
      [] subject = "Web Upload" ->
             <<"W", "e", "b", " ", "U", "p", "l", "o", "a", "d">>
      [] subject = "CLAIM" ->
             <<"C", "L", "A", "I", "M">>
      [] subject = "exposure of premium" ->
             <<"e", "x", "p", "o", "s", "u", "r", "e", " ", "o", "f", " ", "p", "r", "e", "m", "i", "u", "m">>
      [] subject = "Report" ->
             <<"R", "e", "p", "o", "r", "t">>
      [] OTHER -> <<>>

\* str.lower on the characters that occur.
Lower(ch) ==
    CASE ch = "A" -> "a"
      [] ch = "C" -> "c"
      [] ch = "E" -> "e"
      [] ch = "I" -> "i"
      [] ch = "L" -> "l"
      [] ch = "M" -> "m"
      [] ch = "P" -> "p"
      [] ch = "Q" -> "q"
      [] ch = "R" -> "r"
      [] ch = "U" -> "u"
      [] ch = "W" -> "w"
      [] OTHER -> ch

\* "sub in s" on character sequences.
Contains(s, sub) ==
    \E i \in 0..(Len(s) - Len(sub)) : SubSeq(s, i + 1, i + Len(sub)) = sub

\* A variant of the inference that tests for premium before claim.
InferPremiumFirst(subject) ==
    LET subject_lower == [i \in 1..Len(Spelling(subject)) |-> Lower(Spelling(subject)[i])]
    IN IF subject = "" THEN ""
       ELSE IF Contains(subject_lower, <<"p", "r", "e", "m", "i", "u", "m">>) THEN "premium"
       ELSE IF Contains(subject_lower, <<"c", "l", "a", "i", "m">>) THEN "claims"
       ELSE IF Contains(subject_lower, <<"e", "x", "p", "o", "s", "u", "r", "e">>) THEN "exposure"
       ELSE ""

\* Lines 217-229 of process_file: no type without a subject; else the subject
\* in lower case is searched for claim, then premium, then exposure.
InferFromSubject(subject) ==
    LET subject_lower == [i \in 1..Len(Spelling(subject)) |-> Lower(Spelling(subject)[i])]
    IN IF subject = "" THEN ""
       ELSE IF Contains(subject_lower, <<"c", "l", "a", "i", "m">>) THEN "claims"
       ELSE IF Contains(subject_lower, <<"p", "r", "e", "m", "i", "u", "m">>) THEN "premium"
       ELSE IF Contains(subject_lower, <<"e", "x", "p", "o", "s", "u", "r", "e">>) THEN "exposure"
       ELSE ""

\* The inferred type of each subject (computed once).
FileTypeOf == [subject \in Subjects |-> InferFromSubject(subject)]

\* The file type inferred from the subject ("" when none is).
InferFileType(subject) == FileTypeOf[subject]

\* The template of scenario S1 (without the currency column).
T1 == [template_id |-> "t_claims", name |-> "Claims", carrier |-> "",
       version |-> "1.0.0", file_type |-> "claims", active_flag |-> TRUE,
       column_mappings |-> << <<"Policy Number", "policy_number">>,
                              <<"Premium", "premium_amount">> >>]

NoTemplate == [template_id |-> "", file_type |-> "", active_flag |-> FALSE,
               column_mappings |-> <<>>]

\* The keys of a template's JSON file that the table has as columns.
TemplateKeys == {"template_id", "name", "carrier", "file_type", "column_mappings",
                 "version", "active_flag"}

\* template_data of create and update: the content of the JSON file of a row.
TemplateData(t) == [k \in TemplateKeys \cap DOMAIN t |-> t[k]]

\* The JSON files of a table whose rows were all written by the repository.
SidecarsOf(tpls) ==
    [id \in {tpls[i].template_id : i \in DOMAIN tpls} |->
        TemplateData(tpls[CHOOSE i \in DOMAIN tpls : tpls[i].template_id = id])]

(***************************************************************************)
(* Template matcher (PipelineService._find_matching_template)              *)
(***************************************************************************)
TemplateColumns(t) ==
    [i \in 1..Len(t.column_mappings) |-> NormalizeColumnName(t.column_mappings[i][1])]

\* matches: the template columns found among the file headers.
MatchCount(t, headers) ==
    Cardinality({i \in 1..Len(TemplateColumns(t)) : TemplateColumns(t)[i] \in SeqRange(headers)})

ExactMatch(t, headers) ==
    /\ MatchCount(t, headers) = Len(TemplateColumns(t))
    /\ ~(Len(headers) > Len(TemplateColumns(t)))

\* matches >= len * 0.99 and (len(headers) - len) / len <= 0.1, in integers.
LenientMatch(t, headers) ==
    /\ MatchCount(t, headers) > 0
    /\ MatchCount(t, headers) * 100 >= Len(TemplateColumns(t)) * 99
    /\ (Len(headers) - Len(TemplateColumns(t))) * 10 <= Len(TemplateColumns(t))

\* A variant of list_active_templates that leaves out the active_flag filter.
ListTemplatesOfType(tpls, file_type) ==
    SelectSeq(tpls, LAMBDA t : file_type = "" \/ t.file_type = file_type)

\* list_active_templates: active templates, of the file type when one is given.
ListActiveTemplates(tpls, file_type) ==
    SelectSeq(tpls, LAMBDA t : t.active_flag /\ (file_type = "" \/ t.file_type = file_type))

TemplateSelected(t, headers) ==
    /\ Len(t.column_mappings) > 0
    /\ (ExactMatch(t, headers) \/ LenientMatch(t, headers))

\* The first template of the scan that matches exactly or leniently.
FindMatchingTemplate(tpls, headers, file_type) ==
    LET cand == ListActiveTemplates(tpls, file_type)
        hits == {i \in 1..Len(cand) : TemplateSelected(cand[i], headers)}
    IN IF hits = {} THEN NoTemplate
       ELSE cand[CHOOSE i \in hits : \A j \in hits : i <= j]

(***************************************************************************)
(* Row mapper (MappingService.map_to_canonical)                            *)
(***************************************************************************)
\* "a in b" on the column names that occur.
IsSubstring(a, b) ==
    \/ a = b
    \/ a = "prem" /\ b = "premium"
    \/ a = "pol" /\ b \in {"polno", "policy_number"}

\* _find_matching_column: exact, then containment in either direction; 0 if none.
FindMatchingColumn(headers, source_column) ==
    LET n == NormalizeColumnName(source_column)
        exact == {i \in 1..Len(headers) : headers[i] = n}
        part == {i \in 1..Len(headers) : IsSubstring(n, headers[i]) \/ IsSubstring(headers[i], n)}
    IN IF exact # {} THEN CHOOSE i \in exact : \A j \in exact : i <= j
       ELSE IF part # {} THEN CHOOSE i \in part : \A j \in part : i <= j
       ELSE 0

\* _parse_string: trimmed text, None when empty.
ParseString(cell) == IF cell = None \/ cell = Some("") THEN None ELSE cell

\* parse_decimal followed by float(): the cells of the numeric columns are numbers.
ParseAmount(cell) == cell

ParseField(field, cell) ==
    IF field = "policy_number" THEN ParseString(cell) ELSE ParseAmount(cell)

\* The table columns mapped to a canonical field, in template order.
MappedColumns(t, headers, field) ==
    LET idx == SelectSeq([i \in 1..Len(t.column_mappings) |-> i],
                         LAMBDA i : /\ t.column_mappings[i][2] = field
                                    /\ FindMatchingColumn(headers, t.column_mappings[i][1]) # 0)
    IN [k \in 1..Len(idx) |-> FindMatchingColumn(headers, t.column_mappings[idx[k]][1])]

\* The first non-null parsed value among the mapped columns.
FieldValue(t, headers, srow, field) ==
    LET cols == MappedColumns(t, headers, field)
        good == {k \in 1..Len(cols) : srow[cols[k]] # None /\ ParseField(field, srow[cols[k]]) # None}
    IN IF good = {} THEN None
       ELSE ParseField(field, srow[cols[CHOOSE k \in good : \A j \in good : k <= j]])

\* One BordereauxRowCreate per table row, row_number = index + 1.
MapToCanonical(c, t, file_id) ==
    [i \in 1..Len(SourceRows(c)) |->
        [file_id |-> file_id, row_number |-> i,
         fields |-> [f \in CanonicalFields |-> FieldValue(t, Headers(c), SourceRows(c)[i], f)]]]

(***************************************************************************)
(* Validator (ValidationService), default rules                            *)
(***************************************************************************)
RequiredFields == <<"policy_number">>

DateRules == <<[name |-> "inception_before_expiry",
               inception_field |-> "inception_date", expiry_field |-> "expiry_date"]>>

NumericRules == <<[name |-> "premium_non_negative", field |-> "premium_amount"],
                  [name |-> "claim_non_negative", field |-> "claim_amount"],
                  [name |-> "commission_non_negative", field |-> "commission_amount"],
                  [name |-> "net_premium_non_negative", field |-> "net_premium"]>>

MinValue == 0

ErrorRecord(idx, code, field, rule) ==
    [row_index |-> idx, error_code |-> code, field_name |-> field, rule_name |-> rule]

ValidateRequiredFields(row, idx) ==
    LET bad == SelectSeq(RequiredFields, LAMBDA f : row.fields[f] = None)
    IN [k \in 1..Len(bad) |-> ErrorRecord(idx, "REQUIRED_FIELD_MISSING", bad[k], "required_field")]

ValidateDateRules(row, idx) ==
    LET bad == SelectSeq(DateRules, LAMBDA r :
                   /\ row.fields[r.inception_field] # None
                   /\ row.fields[r.expiry_field] # None
                   /\ row.fields[r.inception_field][1] > row.fields[r.expiry_field][1])
    IN [k \in 1..Len(bad) |-> ErrorRecord(idx, "DATE_VALIDATION_FAILED",
                                          "inception_date,expiry_date", bad[k].name)]

\* Variant: an amount of zero is rejected too.
ValidateNumericRulesPositive(row, idx) ==
    LET bad == SelectSeq(NumericRules, LAMBDA r :
                   /\ row.fields[r.field] # None
                   /\ row.fields[r.field][1] <= MinValue)
    IN [k \in 1..Len(bad) |-> ErrorRecord(idx, "NUMERIC_VALIDATION_FAILED",
                                          bad[k].field, bad[k].name)]

ValidateNumericRules(row, idx) ==
    LET bad == SelectSeq(NumericRules, LAMBDA r :
                   /\ row.fields[r.field] # None
                   /\ row.fields[r.field][1] < MinValue)
    IN [k \in 1..Len(bad) |-> ErrorRecord(idx, "NUMERIC_VALIDATION_FAILED",
                                          bad[k].field, bad[k].name)]

\* Variant: validation of a row stops at the first rule that fails.
RowErrorsFirstOnly(row, idx) ==
    LET all == ValidateRequiredFields(row, idx) \o ValidateDateRules(row, idx)
                 \o ValidateNumericRules(row, idx)
    IN IF all = <<>> THEN <<>> ELSE <<all[1]>>

\* The error records of the row at 0-based index idx.
RowErrors(row, idx) ==
    ValidateRequiredFields(row, idx) \o ValidateDateRules(row, idx) \o ValidateNumericRules(row, idx)

RECURSIVE ValidateFrom(_, _)
ValidateFrom(crows, i) ==
    IF i > Len(crows) THEN [valid |-> <<>>, errs |-> <<>>]
    ELSE LET rest == ValidateFrom(crows, i + 1)
             e == RowErrors(crows[i], i - 1)
         IN IF e # <<>> THEN [valid |-> rest.valid, errs |-> e \o rest.errs]
            ELSE [valid |-> <<crows[i]>> \o rest.valid, errs |-> rest.errs]

\* validate_rows: (valid_rows, error_rows), both in input order.
ValidateRows(crows) == ValidateFrom(crows, 1)

(***************************************************************************)
(* Mapping suggestions (MappingSuggestionService.suggest_mappings): the    *)
(* heuristic, and the answer of the language model when one is            *)
(* configured.  Confidences are in units of 1/10000.                       *)
(***************************************************************************)
MaxSuggestHeaders == 3

CANONICAL_FIELDS == <<"policy_number", "insured_name", "inception_date", "expiry_date",
                      "premium_amount", "currency", "claim_amount", "commission_amount",
                      "net_premium", "broker_name", "product_type", "coverage_type",
                      "risk_location">>

SuggestHeaderNames == {"policy_number", "premium", "prem", "unknown_column_1"}

\* _calculate_confidence(header, field) for the fields in the order of
\* CANONICAL_FIELDS: 0.3 * fuzzy score + 0.7 * keyword score.
ConfidenceRow(header) ==
    CASE header = "policy_number" ->
           <<7704, 3754, 2593, 2180, 3023, 2437, 1747, 2257, 2638, 2452, 3754, 2479, 2710>>
      [] header = "premium" ->
           <<3223, 2633, 1907, 3320, 9700, 2107, 2448, 2564, 7600, 2788, 3178, 2413, 3898>>
      [] header = "prem" ->
           <<2150, 3160, 2214, 4226, 9700, 2633, 1625, 1808, 7110, 3386, 3160, 3200, 4785>>
      [] header = "polno" ->
           <<8412, 2157, 2508, 2360, 2729, 1614, 2928, 2164, 1800, 2107, 2928, 1442, 3156>>
      [] OTHER ->
           <<2470, 2190, 2671, 817, 1952, 2326, 2027, 2033, 1975, 1725, 1656, 1493, 1362>>

CalculateConfidence(header, k) == ConfidenceRow(header)[k]

MinConfidence == 3000

DefaultConfidence == 7000

EmptyDict == [h \in {} |-> 0]

\* d[key] = value on a dict.
DictSet(d, key, value) ==
    [h \in DOMAIN d \cup {key} |-> IF h = key THEN value ELSE d[h]]

\* Lines 254-266: the index of the best field not yet mapped, 0 when none
\* reaches min_confidence.  A later field replaces the best only when
\* strictly better.
BestMatch(header, mapped_fields) ==
    LET ok == {k \in 1..Len(CANONICAL_FIELDS) :
                 /\ CANONICAL_FIELDS[k] \notin mapped_fields
                 /\ CalculateConfidence(header, k) > 0
                 /\ CalculateConfidence(header, k) >= MinConfidence}
    IN IF ok = {} THEN 0
       ELSE CHOOSE k \in ok : \A j \in ok :
                \/ CalculateConfidence(header, k) > CalculateConfidence(header, j)
                \/ CalculateConfidence(header, k) = CalculateConfidence(header, j) /\ k <= j

\* Lines 246-273: the heuristic, header by header.
RECURSIVE HeuristicFrom(_, _, _, _, _)
HeuristicFrom(file_headers, i, column_mappings, confidence_scores, mapped_fields) ==
    IF i > Len(file_headers)
    THEN [column_mappings |-> column_mappings, confidence_scores |-> confidence_scores]
    ELSE LET header == file_headers[i]
             k == BestMatch(header, mapped_fields)
         IN IF k = 0
            THEN HeuristicFrom(file_headers, i + 1, column_mappings, confidence_scores,
                               mapped_fields)
            ELSE HeuristicFrom(file_headers, i + 1,
                               DictSet(column_mappings, header, CANONICAL_FIELDS[k]),
                               DictSet(confidence_scores, header, CalculateConfidence(header, k)),
                               mapped_fields \cup {CANONICAL_FIELDS[k]})

HeuristicMappings(file_headers) == HeuristicFrom(file_headers, 1, EmptyDict, EmptyDict, {})

\* AISuggestionService.suggest_mappings, lines 216-244: the mappings of the
\* answer as they are, a default confidence where the answer gives none.
AISuggestMappings(answer) ==
    [column_mappings |-> answer.mappings,
     confidence_scores |-> [h \in DOMAIN answer.mappings |->
                              IF h \in DOMAIN answer.confidence_scores
                              THEN answer.confidence_scores[h] ELSE DefaultConfidence]]

\* Lines 220-235: the AI mappings of at least min_confidence.
FilterByConfidence(ai) ==
    LET kept == {h \in DOMAIN ai.column_mappings : ai.confidence_scores[h] >= MinConfidence}
    IN [column_mappings |-> [h \in kept |-> ai.column_mappings[h]],
        confidence_scores |-> [h \in kept |-> ai.confidence_scores[h]]]

\* suggest_mappings: the AI answer when AI is used and the call succeeds,
\* the heuristic otherwise.
SuggestMappings(file_headers, should_use_ai, answer) ==
    IF should_use_ai /\ answer.ok
    THEN FilterByConfidence(AISuggestMappings(answer))
    ELSE HeuristicMappings(file_headers)

\* The call of the language model raised.
NoAnswer == [ok |-> FALSE, mappings |-> EmptyDict, confidence_scores |-> EmptyDict]

(***************************************************************************)
(* State                                                                   *)
(***************************************************************************)
Idle == [op |-> "idle", pc |-> "idle", c |-> "", fid |-> 0, dup |-> FALSE,
         run |-> 0, path |-> None, tpl |-> NoTemplate, atts |-> <<>>, msgs |-> {},
         failed |-> {}, ids |-> <<>>, enum |-> <<>>, results |-> None]

NoSave == [c |-> "", fid |-> 0, status |-> ""]

Max(S) == IF S = {} THEN 0 ELSE CHOOSE m \in S : \A n \in S : n <= m
Min(S) == CHOOSE m \in S : \A n \in S : m <= n

RECURSIVE SortedSeq(_)
SortedSeq(S) == IF S = {} THEN <<>> ELSE <<Min(S)>> \o SortedSeq(S \ {Min(S)})

\* BordereauxFile.id: the next rowid of the table.
NewFileId == Max(DOMAIN files) + 1

\* A row of bordereaux_files as save_raw_file inserts it.
NewFileRow(c, path, sender, subject) ==
    [content_hash |-> c, file_path |-> path, status |-> PENDING, error_message |-> "",
     total_rows |-> 0, processed_rows |-> 0, processed_at |-> 0, proposal_path |-> None,
     sender |-> sender, subject |-> subject]

\* The files whose file_hash is the hash of c.
FilesWithHash(c) == {id \in DOMAIN files : files[id].content_hash = c}

\* query(...).filter(file_hash == h).first(): the row with the lowest id, 0 if none.
ExistingFile(c) == IF FilesWithHash(c) = {} THEN 0 ELSE Min(FilesWithHash(c))

\* _generate_unique_filename: {hash8}_{timestamp}_{name}.  A path is <<content, k>>;
\* a save within the second of an earlier save of the same bytes under the same name
\* gets the earlier path, any other save a new one.
UsedPathNumbers(c) ==
    {p[2] : p \in {q \in disk : q[1] = c}} \cup
    {files[id].file_path[2] : id \in FilesWithHash(c)}

FreshPath(c) == <<c, Max(UsedPathNumbers(c)) + 1>>

StoragePaths(c) == {FreshPath(c)} \cup {q \in disk : q[1] = c}

FileRows(fid) == {r \in rows : r.file_id = fid}
FileErrors(fid) == {e \in errors : e.file_id = fid}

Init ==
    /\ files = <<>>
    /\ disk = {}
    /\ rows = {}
    /\ errors = {}
    /\ proposals = {}
    /\ templates = <<T1>>
    /\ sidecars = SidecarsOf(<<T1>>)
    /\ seen = ReadAtStart
    /\ w = [x \in Workers |-> Idle]
    /\ nops = MaxOps
    /\ nruns = 0
    /\ ret = [poller |-> None, batch |-> None, admin |-> None, parse |-> None, load |-> None, infer |-> None, match |-> None, validate |-> None, suggest |-> None]
    /\ lastSave = NoSave

(***************************************************************************)
(* Storage layer: save_raw_file                                            *)
(***************************************************************************)
\* A variant of the duplicate check that refreshes sender and subject of the
\* existing row from the new call.
SaveLookupRefreshes(x, c, loc) ==
    /\ IF ExistingFile(c) # 0
       THEN /\ w' = [w EXCEPT ![x] = [loc EXCEPT !.c = c, !.fid = ExistingFile(c),
                                                  !.dup = TRUE, !.pc = "received"]]
            /\ lastSave' = [c |-> c, fid |-> ExistingFile(c),
                            status |-> files[ExistingFile(c)].status]
            /\ files' = [files EXCEPT ![ExistingFile(c)].sender =
                                          IF x = "http" THEN "web_upload" ELSE "mail",
                                      ![ExistingFile(c)].subject =
                                          IF x = "http" THEN WebUploadSubject ELSE @]
       ELSE /\ w' = [w EXCEPT ![x] = [loc EXCEPT !.c = c, !.fid = 0,
                                                  !.dup = FALSE, !.pc = "insert"]]
            /\ UNCHANGED <<files, lastSave>>
    /\ UNCHANGED <<disk, rows, errors, proposals, templates, sidecars, seen, nruns, ret>>

\* Lines 80-100: the duplicate check.  A duplicate returns the existing id and
\* the status the row has.
SaveLookup(x, c, loc) ==
    /\ IF ExistingFile(c) # 0
       THEN /\ w' = [w EXCEPT ![x] = [loc EXCEPT !.c = c, !.fid = ExistingFile(c),
                                                  !.dup = TRUE, !.pc = "received"]]
            /\ lastSave' = [c |-> c, fid |-> ExistingFile(c),
                             status |-> files[ExistingFile(c)].status]
       ELSE /\ w' = [w EXCEPT ![x] = [loc EXCEPT !.c = c, !.fid = 0,
                                                  !.dup = FALSE, !.pc = "insert"]]
            /\ UNCHANGED lastSave
    /\ UNCHANGED <<files, disk, rows, errors, proposals, templates, sidecars, seen, nruns, ret>>

\* Lines 102-147: write the bytes, insert the row with status pending, commit.
SaveInsert(x) ==
    /\ w[x].pc = "insert"
    /\ \E path \in StoragePaths(w[x].c) :
         /\ disk' = disk \cup {path}
         /\ files' = files @@ (NewFileId :>
                NewFileRow(w[x].c, path,
                           IF x = "http" THEN "web_upload" ELSE "mail",
                           IF x = "http" THEN WebUploadSubject
                           ELSE Mailbox[w[x].atts[1][1]].subject))
    /\ w' = [w EXCEPT ![x].fid = NewFileId, ![x].dup = FALSE, ![x].pc = "received"]
    /\ lastSave' = [c |-> w[x].c, fid |-> NewFileId, status |-> PENDING]
    /\ UNCHANGED <<rows, errors, proposals, templates, sidecars, seen, nops, nruns, ret>>

(***************************************************************************)
(* Ingestion: upload_file and PollMailboxJob.run                           *)
(***************************************************************************)
\* POST /files/upload with one file: save_raw_file starts.
UploadStart(c) ==
    /\ w["http"].pc = "idle"
    /\ nops > 0
    /\ nops' = nops - 1
    /\ SaveLookup("http", c, [Idle EXCEPT !.op = "upload"])

\* The attachments of the unread messages, message by message.
RECURSIVE Attachments(_)
Attachments(ms) ==
    IF ms = <<>> THEN <<>>
    ELSE [i \in 1..Len(Mailbox[Head(ms)].atts) |-> <<Head(ms), Mailbox[Head(ms)].atts[i]>>]
         \o Attachments(Tail(ms))

Unread == {m \in 1..Len(Mailbox) : m \notin seen}

\* What fetch_unread_emails leaves flagged.  It selects the folder read-write and
\* fetches RFC822, which is BODY[] under another name: the server sets \Seen on
\* every message fetched (RFC 3501, 6.4.5).  A server or mailbox that keeps the
\* flags as they are (a read-only mailbox) is the other outcome.
SeenAfterFetch == {seen, seen \cup Unread}

\* The results of a poll before its first attachment.
PollResults == [processed_count |-> 0, duplicate_count |-> 0, failed_count |-> 0,
                emails_marked_seen |-> 0, raised |-> FALSE]

\* A poll that ended by raising returns no results.
PollRaised == [PollResults EXCEPT !.raised = TRUE]

\* fetch_unread_emails (mark_as_read = False): the attachments of the unread
\* messages, keyed by message; a fetch that yields no attachment ends the poll.
PollFetch ==
    /\ w["poller"].pc = "idle"
    /\ nops > 0
    /\ nops' = nops - 1
    /\ IF Attachments(SortedSeq(Unread)) = <<>>
       THEN /\ ret' = [ret EXCEPT !.poller = Some(PollResults)]
            /\ UNCHANGED w
       ELSE /\ w' = [w EXCEPT !["poller"] =
                        [Idle EXCEPT !.op = "poll", !.pc = "lookup",
                                     !.msgs = {m \in Unread : Mailbox[m].atts # <<>>},
                                     !.atts = Attachments(SortedSeq(Unread)),
                                     !.results = PollResults]]
            /\ UNCHANGED ret
    /\ seen' \in SeenAfterFetch
    /\ UNCHANGED <<files, disk, rows, errors, proposals, templates, sidecars, nruns, lastSave>>

\* A variant in which the failure comes after the messages were fetched.
PollFetchBreaksOff ==
    /\ w["poller"].pc = "idle"
    /\ nops > 0
    /\ nops' = nops - 1
    /\ ret' = [ret EXCEPT !.poller = Some(PollRaised)]
    /\ seen' = seen \cup Unread
    /\ UNCHANGED <<files, disk, rows, errors, proposals, templates, sidecars, w, nruns, lastSave>>

\* _connect raises (no connection, login refused): fetch_unread_emails raises
\* RuntimeError, run logs it, closes the session and raises.
PollConnectFails ==
    /\ w["poller"].pc = "idle"
    /\ nops > 0
    /\ nops' = nops - 1
    /\ ret' = [ret EXCEPT !.poller = Some(PollRaised)]
    /\ UNCHANGED <<files, disk, rows, errors, proposals, templates, sidecars, seen, w, nruns, lastSave>>

\* save_raw_file for the next attachment.
PollSave ==
    /\ w["poller"].pc = "lookup"
    /\ SaveLookup("poller", w["poller"].atts[1][2], w["poller"])
    /\ UNCHANGED nops

\* The poller after an attachment: the next attachment, or the marking.
NextAttachment(loc) ==
    IF Len(loc.atts) > 1
    THEN [loc EXCEPT !.pc = "lookup", !.atts = Tail(loc.atts)]
    ELSE [loc EXCEPT !.pc = "seen", !.atts = <<>>]

\* The ingestor sets status = RECEIVED on the id save_raw_file returned.
SetReceived(x) ==
    /\ w[x].pc = "received"
    /\ files' = IF w[x].fid \in DOMAIN files
                THEN [files EXCEPT ![w[x].fid].status = RECEIVED]
                ELSE files
    /\ w' = [w EXCEPT ![x] =
                IF x = "http" THEN [w[x] EXCEPT !.pc = "begin"]
                ELSE NextAttachment(
                         IF w[x].dup
                         THEN [w[x] EXCEPT !.results.duplicate_count = @ + 1]
                         ELSE [w[x] EXCEPT !.results.processed_count = @ + 1])]
    /\ UNCHANGED <<disk, rows, errors, proposals, templates, sidecars, seen, nops, nruns, ret, lastSave>>

\* The commit of the status update raises after save_raw_file returned: the
\* poller counts the attachment as failed for its message and goes on, the
\* upload reports the error for the file.  The file keeps the status it has.
SetReceivedFails(x) ==
    /\ w[x].pc = "received"
    /\ w' = [w EXCEPT ![x] =
                IF x = "http" THEN Idle
                ELSE NextAttachment([w[x] EXCEPT !.failed = @ \cup {w[x].atts[1][1]},
                                                 !.results.failed_count = @ + 1])]
    /\ UNCHANGED <<files, disk, rows, errors, proposals, templates, sidecars, seen, nops,
                   nruns, ret, lastSave>>

\* save_raw_file raises for new bytes: while writing them (nothing is stored) or
\* at the commit of the row (the bytes stay on disk without a row).  The poller
\* counts the attachment as failed for its message and goes on; the upload
\* reports the error.
SaveFails(x) ==
    /\ w[x].pc = "insert"
    /\ nops > 0
    /\ nops' = nops - 1
    /\ disk' \in {disk, disk \cup {FreshPath(w[x].c)}}
    /\ w' = [w EXCEPT ![x] =
                IF x = "http" THEN Idle
                ELSE NextAttachment([w[x] EXCEPT !.failed = @ \cup {w[x].atts[1][1]},
                                                 !.results.failed_count = @ + 1])]
    /\ UNCHANGED <<files, rows, errors, proposals, templates, sidecars, seen, nruns, ret, lastSave>>

\* The messages whose attachments all succeeded.
EmailsToMarkSeen(loc) == loc.msgs \ loc.failed

\* mark_emails_as_seen for the messages whose attachments all succeeded; the
\* poll returns its results.
PollMarkSeen ==
    /\ w["poller"].pc = "seen"
    /\ seen' = seen \cup EmailsToMarkSeen(w["poller"])
    /\ ret' = [ret EXCEPT !.poller =
                  Some([w["poller"].results EXCEPT
                          !.emails_marked_seen = Cardinality(EmailsToMarkSeen(w["poller"]))])]
    /\ w' = [w EXCEPT !["poller"] = Idle]
    /\ UNCHANGED <<files, disk, rows, errors, proposals, templates, sidecars, nops, nruns, lastSave>>

\* mark_emails_as_seen raises: the error is logged and the poll returns.
PollMarkSeenFails ==
    /\ w["poller"].pc = "seen"
    /\ EmailsToMarkSeen(w["poller"]) # {}
    /\ nops > 0
    /\ nops' = nops - 1
    /\ ret' = [ret EXCEPT !.poller = Some(w["poller"].results)]
    /\ w' = [w EXCEPT !["poller"] = Idle]
    /\ UNCHANGED <<files, disk, rows, errors, proposals, templates, sidecars, seen, nruns, lastSave>>

(***************************************************************************)
(* Pipeline orchestrator: PipelineService.process_file                     *)
(***************************************************************************)
\* The results of a batch run before its first file.
BatchResults == [processed_count |-> 0, success_count |-> 0, failed_count |-> 0,
                 new_template_count |-> 0, results |-> <<>>]

\* A variant of the bookkeeping that counts and keeps only the successful files.
BatchRecordSuccessOnly(res, fid, success, status) ==
    IF success
    THEN [res EXCEPT !.processed_count = @ + 1,
                     !.success_count = @ + 1,
                     !.new_template_count =
                         IF status = NEW_TEMPLATE_REQUIRED THEN @ + 1 ELSE @,
                     !.results = Append(@, [file_id |-> fid, success |-> success,
                                            status |-> status])]
    ELSE [res EXCEPT !.failed_count = @ + 1]

\* Lines 71-103 of ProcessNewFilesJob.run: the outcome of process_file for one
\* file is counted and appended.
BatchRecord(res, fid, success, status) ==
    [res EXCEPT !.processed_count = @ + 1,
                !.success_count = IF success THEN @ + 1 ELSE @,
                !.failed_count = IF success THEN @ ELSE @ + 1,
                !.new_template_count =
                    IF success /\ status = NEW_TEMPLATE_REQUIRED THEN @ + 1 ELSE @,
                !.results = Append(@, [file_id |-> fid, success |-> success,
                                       status |-> status])]

\* What the process does when process_file returns (success, status): the batch
\* job records the outcome and goes on with its next file, a request ends.
Finish(x, success, status) ==
    IF x = "batch" /\ w[x].ids # <<>>
    THEN [Idle EXCEPT !.op = "batch", !.pc = "begin", !.fid = Head(w[x].ids),
                      !.ids = Tail(w[x].ids), !.enum = w[x].enum,
                      !.results = BatchRecord(w[x].results, w[x].fid, success, status)]
    ELSE Idle

\* What the jobs have returned after process_file returns (success, status): the
\* batch job returns its results after its last file.
Returned(x, success, status) ==
    IF x = "batch" /\ w[x].ids = <<>>
    THEN [ret EXCEPT !.batch = Some(BatchRecord(w[x].results, w[x].fid, success, status))]
    ELSE ret

\* _update_file_status: no row, no write; a message is stored when one is given.
UpdateFileStatus(fid, status, msg) ==
    IF fid \in DOMAIN files
    THEN [files EXCEPT ![fid].status = status,
                       ![fid].error_message = IF msg # "" THEN msg ELSE @]
    ELSE files

\* A variant of the first step that stores a failed row for an id without one.
ProcBeginStoresMissing(x) ==
    /\ w[x].pc = "begin"
    /\ nruns' = nruns + 1
    /\ IF w[x].fid \in DOMAIN files
       THEN /\ files' = UpdateFileStatus(w[x].fid, PROCESSING, "")
            /\ w' = [w EXCEPT ![x].pc = "parse", ![x].run = nruns + 1,
                              ![x].path = files[w[x].fid].file_path]
            /\ UNCHANGED ret
       ELSE /\ w' = [w EXCEPT ![x] = Finish(x, FALSE, "")]
            /\ ret' = Returned(x, FALSE, "")
            /\ files' = [id \in DOMAIN files \cup {w[x].fid} |->
                            IF id = w[x].fid
                            THEN [NewFileRow("", <<"", 0>>, "", "") EXCEPT !.status = FAILED]
                            ELSE files[id]]
    /\ UNCHANGED <<disk, rows, errors, proposals, templates, sidecars, seen, nops, lastSave>>

\* Lines 163-186: load the row (a missing row ends the call), set PROCESSING.
ProcBegin(x) ==
    /\ w[x].pc = "begin"
    /\ nruns' = nruns + 1
    /\ IF w[x].fid \in DOMAIN files
       THEN /\ files' = UpdateFileStatus(w[x].fid, PROCESSING, "")
            /\ w' = [w EXCEPT ![x].pc = "parse", ![x].run = nruns + 1,
                              ![x].path = files[w[x].fid].file_path]
            /\ UNCHANGED ret
       ELSE /\ w' = [w EXCEPT ![x] = Finish(x, FALSE, "")]
            /\ ret' = Returned(x, FALSE, "")
            /\ UNCHANGED files
    /\ UNCHANGED <<disk, rows, errors, proposals, templates, sidecars, seen, nops, lastSave>>

\* process_file raises before its try block (no database session): the batch
\* job records the failure of the file and goes on, a request ends with an error.
ProcRaises(x) ==
    /\ w[x].pc = "begin"
    /\ nops > 0
    /\ nops' = nops - 1
    /\ w' = [w EXCEPT ![x] = Finish(x, FALSE, "")]
    /\ ret' = Returned(x, FALSE, "")
    /\ UNCHANGED <<files, disk, rows, errors, proposals, templates, sidecars, seen, nruns, lastSave>>

\* The column mappings of the templates that can be in the table: those of the
\* installed and the uploaded templates, and those saved from a proposal.
AllMappings ==
    {T1.column_mappings,
     << <<"PolNo", "policy_number">>, <<"Prem", "premium_amount">> >>} \cup
    {[k \in 1..Len(Headers(c)) |-> <<Headers(c)[k], "insured_name">>] : c \in Contents} \cup
    {LET m == HeuristicMappings(Headers(c)).column_mappings
         mapped == SelectSeq(Headers(c), LAMBDA h : h \in DOMAIN m)
     IN [k \in 1..Len(mapped) |-> <<mapped[k], m[mapped[k]]>>] : c \in Contents}

\* The canonical rows of each file under each template, validated (computed once).
ResultTable ==
    [c \in Contents, m \in AllMappings |->
        ValidateRows(MapToCanonical(c, [column_mappings |-> m], 0))]

\* The canonical rows and their validation for the parsed file and the template.
RunResult(c, t) == ResultTable[c, t.column_mappings]

\* The rows process_and_persist adds for the valid rows (lines 145-177); file_id
\* is set on each row before it is added.
PersistedRows(c, t, fid, run) ==
    LET valid == RunResult(c, t).valid
    IN {[file_id |-> fid, row_number |-> valid[i].row_number, run |-> run] :
            i \in 1..Len(valid)}

\* The rows save_validation_errors adds (one per error record).
PersistedErrors(c, t, fid, run) ==
    LET errs == RunResult(c, t).errs
    IN {[file_id |-> fid, run |-> run, row_index |-> errs[i].row_index,
         error_code |-> errs[i].error_code, field_name |-> errs[i].field_name,
         rule_name |-> errs[i].rule_name] : i \in 1..Len(errs)}

\* What the call of the language model delivers during a run: an exception
\* (network, timeout, HTTP status, malformed JSON), or an answer for the headers.
LLMReplies(file_headers) ==
    {NoAnswer,
     [ok |-> TRUE, mappings |-> [h \in SeqRange(file_headers) |-> "insured_name"],
      confidence_scores |-> EmptyDict]}

\* save_proposal: the proposal file of a run.
ProposalData(fid, run, file_headers, suggestion) ==
    [file_id |-> fid, ts |-> run, file_headers |-> file_headers,
     column_mappings |-> suggestion.column_mappings,
     confidence_scores |-> suggestion.confidence_scores]

\* A variant of the proposal step that gives the file up when the call of the
\* language model fails.
WriteProposalOrFail(fid, run, c, answer) ==
    IF answer.ok
    THEN /\ proposals' = proposals \cup
               {ProposalData(fid, run, Headers(c), SuggestMappings(Headers(c), TRUE, answer))}
         /\ files' = [files EXCEPT ![fid].status = NEW_TEMPLATE_REQUIRED,
                                   ![fid].proposal_path = <<fid, run>>]
    ELSE /\ UNCHANGED proposals
         /\ files' = UpdateFileStatus(fid, FAILED, "Error generating suggestions")

\* A variant of the proposal step that also resets the statistics of the file.
WriteProposalResetsStats(fid, run, c, answer) ==
    /\ proposals' = proposals \cup
          {ProposalData(fid, run, Headers(c), SuggestMappings(Headers(c), TRUE, answer))}
    /\ files' = [files EXCEPT ![fid].status = NEW_TEMPLATE_REQUIRED,
                              ![fid].proposal_path = <<fid, run>>,
                              ![fid].total_rows = 0,
                              ![fid].processed_rows = 0,
                              ![fid].processed_at = 0]

\* MappingSuggestionService.process_file: suggest the mappings (the language
\* model first, the heuristic when its call fails), write the proposal, set the
\* status and proposal_path.
WriteProposal(fid, run, c, answer) ==
    /\ proposals' = proposals \cup
          {ProposalData(fid, run, Headers(c), SuggestMappings(Headers(c), TRUE, answer))}
    /\ files' = [files EXCEPT ![fid].status = NEW_TEMPLATE_REQUIRED,
                              ![fid].proposal_path = <<fid, run>>]

\* Lines 188-335: parse the stored bytes, infer the file type, match a template;
\* with a template map, validate and commit the valid rows, without one write the
\* proposal.  A parse error sets FAILED; a row deleted meanwhile ends the call in
\* the catch-all, whose status update finds nothing to write.
ProcParse(x, answer) ==
    /\ w[x].pc = "parse"
    /\ answer \in LLMReplies(Headers(w[x].path[1]))
    /\ LET fid == w[x].fid
           path == w[x].path
           c == path[1]
           tpl == FindMatchingTemplate(templates, Headers(c),
                                       InferFileType(files[fid].subject))
       IN IF path \notin disk \/ ~Parseable(c)
          THEN /\ files' = UpdateFileStatus(fid, FAILED, "Error parsing file")
               /\ w' = [w EXCEPT ![x] = Finish(x, FALSE, "")]
               /\ ret' = Returned(x, FALSE, "")
               /\ UNCHANGED <<rows, proposals>>
          ELSE IF fid \notin DOMAIN files
          THEN /\ w' = [w EXCEPT ![x] = Finish(x, FALSE, "")]
               /\ ret' = Returned(x, FALSE, "")
               /\ UNCHANGED <<files, rows, proposals>>
          ELSE IF tpl # NoTemplate
          THEN /\ rows' = rows \cup PersistedRows(c, tpl, fid, w[x].run)
               /\ w' = [w EXCEPT ![x].pc = "errors", ![x].tpl = tpl]
               /\ UNCHANGED <<files, proposals, ret>>
          ELSE /\ WriteProposal(fid, w[x].run, c, answer)
               /\ w' = [w EXCEPT ![x] = Finish(x, TRUE, NEW_TEMPLATE_REQUIRED)]
               /\ ret' = Returned(x, TRUE, NEW_TEMPLATE_REQUIRED)
               /\ UNCHANGED rows
    /\ UNCHANGED <<disk, errors, templates, sidecars, seen, nops, nruns, lastSave>>

\* Lines 179-192 of process_and_persist: the error records are committed.
ProcErrors(x) ==
    /\ w[x].pc = "errors"
    /\ errors' = errors \cup PersistedErrors(w[x].path[1], w[x].tpl, w[x].fid, w[x].run)
    /\ w' = [w EXCEPT ![x].pc = "stats"]
    /\ UNCHANGED <<files, disk, rows, proposals, templates, sidecars, seen, nops, nruns, ret, lastSave>>

\* The status process_and_persist decides (lines 194-198).
FinalStatus(error_count) ==
    IF error_count = 0 THEN PROCESSED_OK ELSE PROCESSED_WITH_ERRORS

\* A variant of _update_file_stats that takes processed_rows from the number of
\* error records instead of the number of valid rows.
UpdateFileStatsByErrorCount(fid, total_rows, valid_rows, error_rows, run) ==
    IF fid \in DOMAIN files
    THEN [files EXCEPT ![fid].total_rows = total_rows,
                       ![fid].processed_rows = Max({0, total_rows - error_rows}),
                       ![fid].status = FinalStatus(error_rows),
                       ![fid].processed_at = run,
                       ![fid].error_message =
                           IF error_rows > 0 THEN "Processed with validation errors" ELSE ""]
    ELSE files

\* _update_file_stats: counts, status, processed_at and error_message in one commit.
UpdateFileStats(fid, total_rows, valid_rows, error_rows, run) ==
    IF fid \in DOMAIN files
    THEN [files EXCEPT ![fid].total_rows = total_rows,
                       ![fid].processed_rows = valid_rows,
                       ![fid].status = FinalStatus(error_rows),
                       ![fid].processed_at = run,
                       ![fid].error_message =
                           IF error_rows > 0 THEN "Processed with validation errors" ELSE ""]
    ELSE files

\* Lines 194-203: the final status and the statistics.
ProcStats(x) ==
    /\ w[x].pc = "stats"
    /\ LET res == RunResult(w[x].path[1], w[x].tpl)
       IN /\ files' = UpdateFileStats(w[x].fid, Len(SourceRows(w[x].path[1])),
                                      Len(res.valid), Len(res.errs), w[x].run)
          /\ w' = [w EXCEPT ![x] = Finish(x, TRUE, FinalStatus(Len(res.errs)))]
          /\ ret' = Returned(x, TRUE, FinalStatus(Len(res.errs)))
    /\ UNCHANGED <<disk, rows, errors, proposals, templates, sidecars, seen, nops, nruns, lastSave>>

\* The handlers of process_file after an exception of the template branch (lines
\* 278-295 and 354-374): FAILED and the message are written, unless that write
\* raises too, which the catch-all swallows.  After a commit that failed and was
\* not rolled back the session refuses further statements until a rollback,
\* which neither handler issues; written tells whether the write went through.
FailedOrUnwritten(fid, written) ==
    IF written THEN UpdateFileStatus(fid, FAILED, "Error processing file with template")
    ELSE files

\* map_to_canonical, validate_rows or the commit of the rows raises (lines
\* 173-177 roll the rows back): no row of the run is stored.
ProcRowsFail(x) ==
    /\ w[x].pc = "parse"
    /\ nops > 0
    /\ w[x].fid \in DOMAIN files
    /\ w[x].path \in disk
    /\ Parseable(w[x].path[1])
    /\ FindMatchingTemplate(templates, Headers(w[x].path[1]),
                            InferFileType(files[w[x].fid].subject)) # NoTemplate
    /\ nops' = nops - 1
    /\ files' = FailedOrUnwritten(w[x].fid, TRUE)
    /\ w' = [w EXCEPT ![x] = Finish(x, FALSE, "")]
    /\ ret' = Returned(x, FALSE, "")
    /\ UNCHANGED <<disk, rows, errors, proposals, templates, sidecars, seen, nruns, lastSave>>

\* Lines 183-192 raise after the rows were committed: the commit of
\* save_validation_errors fails (no error record stored), or the records are
\* committed and the JSON report cannot be written (the session is sound then).
ProcErrorsFail(x, stored, written) ==
    /\ w[x].pc = "errors"
    /\ stored => written
    /\ nops > 0
    /\ RunResult(w[x].path[1], w[x].tpl).errs # <<>>
    /\ nops' = nops - 1
    /\ errors' = IF stored
                 THEN errors \cup PersistedErrors(w[x].path[1], w[x].tpl, w[x].fid, w[x].run)
                 ELSE errors
    /\ files' = FailedOrUnwritten(w[x].fid, written)
    /\ w' = [w EXCEPT ![x] = Finish(x, FALSE, "")]
    /\ ret' = Returned(x, FALSE, "")
    /\ UNCHANGED <<disk, rows, proposals, templates, sidecars, seen, nruns, lastSave>>

\* The commit of _update_file_stats raises (line 91) after rows and error
\* records were committed; it is not rolled back.
ProcStatsFail(x, written) ==
    /\ w[x].pc = "stats"
    /\ nops > 0
    /\ nops' = nops - 1
    /\ files' = FailedOrUnwritten(w[x].fid, written)
    /\ w' = [w EXCEPT ![x] = Finish(x, FALSE, "")]
    /\ ret' = Returned(x, FALSE, "")
    /\ UNCHANGED <<disk, rows, errors, proposals, templates, sidecars, seen, nruns, lastSave>>

\* POST /files/{id}/reprocess: 404 without the row, else process_file.
Reprocess(fid) ==
    /\ w["http"].pc = "idle"
    /\ nops > 0
    /\ fid \in DOMAIN files
    /\ nops' = nops - 1
    /\ w' = [w EXCEPT !["http"] = [Idle EXCEPT !.op = "reprocess", !.pc = "begin", !.fid = fid]]
    /\ UNCHANGED <<files, disk, rows, errors, proposals, templates, sidecars, seen, nruns, ret, lastSave>>

\* ProcessNewFilesJob.run: the files in RECEIVED, then process_file for each.
BatchEnumerate ==
    /\ w["batch"].pc = "idle"
    /\ nops > 0
    /\ nops' = nops - 1
    /\ LET ids == SortedSeq({id \in DOMAIN files : files[id].status = RECEIVED})
       IN IF ids = <<>>
          THEN /\ ret' = [ret EXCEPT !.batch = Some(BatchResults)]
               /\ UNCHANGED w
          ELSE /\ w' = [w EXCEPT !["batch"] =
                           [Idle EXCEPT !.op = "batch", !.pc = "begin", !.fid = Head(ids),
                                        !.ids = Tail(ids), !.enum = ids,
                                        !.results = BatchResults]]
               /\ UNCHANGED ret
    /\ UNCHANGED <<files, disk, rows, errors, proposals, templates, sidecars, seen, nruns, lastSave>>

(***************************************************************************)
(* Storage layer: delete_file                                              *)
(***************************************************************************)
\* The commit of db.delete(file): the rows relationship cascades the delete to
\* bordereaux_rows; validation_errors is a plain backref, so the session sets
\* file_id of the file's errors to NULL, which the NOT NULL column refuses.
DeleteCommits(fid) == FileErrors(fid) = {}

\* DELETE /files/{id}/delete: unlink the stored file, then delete the row.
DeleteFile(fid) ==
    /\ w["http"].pc = "idle"
    /\ nops > 0
    /\ fid \in DOMAIN files
    /\ nops' = nops - 1
    /\ disk' = disk \ {files[fid].file_path}
    /\ IF DeleteCommits(fid)
       THEN /\ files' = [id \in DOMAIN files \ {fid} |-> files[id]]
            /\ rows' = rows \ FileRows(fid)
       ELSE UNCHANGED <<files, rows>>
    /\ lastSave' = NoSave
    /\ UNCHANGED <<errors, proposals, templates, sidecars, seen, w, nruns, ret>>

(***************************************************************************)
(* Proposal lookup (routes/mappings.py load_proposal)                      *)
(***************************************************************************)
\* The most recent proposal_{file_id}_*.json, None when there is none.
LoadProposal(fid) ==
    LET mine == {p \in proposals : p.file_id = fid}
    IN IF mine = {} THEN None
       ELSE Some(CHOOSE p \in mine : \A q \in mine : q.ts <= p.ts)

(***************************************************************************)
(* Template administration (routes/mappings.py, TemplateRepository)        *)
(***************************************************************************)
\* A template for the files with the columns PolNo and Prem.
T2 == [template_id |-> "t_odd", name |-> "Odd", carrier |-> "", version |-> "1.0.0",
       file_type |-> "claims", active_flag |-> TRUE,
       column_mappings |-> << <<"PolNo", "policy_number">>,
                              <<"Prem", "premium_amount">> >>]

\* A premium template with the columns of T1.
T3 == [T1 EXCEPT !.template_id = "t_prem", !.name = "Premium", !.file_type = "premium"]

\* Another template under the template_id of T1.
T1Again == [T2 EXCEPT !.template_id = "t_claims", !.name = "Claims again"]

\* The JSON documents posted to /mappings/upload.
TemplateUploads == {T2, T3, T1Again}

\* The forms posted to /mappings/template/{id}/edit; the mappings of the form are
\* the ones the page was filled with.
EditForms == [name : {"Renamed"}, file_type : {"claims", "premium"}, active_flag : BOOLEAN]

\* The template_id values of the form of /mappings/file/{id}/save.
SaveTemplateIds == {"t_claims", "t_saved"}

\* get_by_id: the index of the row with the template_id, 0 when there is none.
GetById(template_id) ==
    LET hits == {i \in DOMAIN templates : templates[i].template_id = template_id}
    IN IF hits = {} THEN 0 ELSE CHOOSE i \in hits : \A j \in hits : i <= j

\* _save_template_to_json: {templates_dir}/{template_id}.json is (over)written.
SaveTemplateToJson(t) ==
    [id \in DOMAIN sidecars \cup {t.template_id} |->
        IF id = t.template_id THEN TemplateData(t) ELSE sidecars[id]]

RemoveAt(s, i) == SubSeq(s, 1, i - 1) \o SubSeq(s, i + 1, Len(s))

\* The response of a template request.
Response(op, template_id, code) ==
    Some([op |-> op, template_id |-> template_id, code |-> code])

\* TemplateRepository.create: the JSON file, then the row.
RepositoryCreate(t) ==
    /\ sidecars' = SaveTemplateToJson(t)
    /\ templates' = Append(templates, t)

\* A variant of update that commits the row and leaves the JSON file as it was.
RepositoryUpdateRowOnly(i, form) ==
    /\ templates' = [templates EXCEPT ![i].name = form.name,
                                      ![i].file_type = form.file_type,
                                      ![i].active_flag = form.active_flag]
    /\ UNCHANGED sidecars

\* TemplateRepository.update: the fields given, then the JSON file from the
\* row, then the commit.
RepositoryUpdate(i, form) ==
    LET row == [templates[i] EXCEPT !.name = form.name,
                                    !.file_type = form.file_type,
                                    !.active_flag = form.active_flag]
    IN /\ sidecars' = SaveTemplateToJson(row)
       /\ templates' = [templates EXCEPT ![i] = row]

\* TemplateRepository.delete: the JSON file when it exists, then the row.
RepositoryDelete(i) ==
    /\ sidecars' = [id \in DOMAIN sidecars \ {templates[i].template_id} |-> sidecars[id]]
    /\ templates' = RemoveAt(templates, i)

\* POST /mappings/upload: 409 when the template_id exists, else create (201).
UploadTemplate(data) ==
    /\ w["http"].pc = "idle"
    /\ nops > 0
    /\ nops' = nops - 1
    /\ IF GetById(data.template_id) # 0
       THEN /\ ret' = [ret EXCEPT !.admin = Response("upload", data.template_id, 409)]
            /\ UNCHANGED <<templates, sidecars>>
       ELSE /\ RepositoryCreate(data)
            /\ ret' = [ret EXCEPT !.admin = Response("upload", data.template_id, 201)]
    /\ UNCHANGED <<files, disk, rows, errors, proposals, seen, w, nruns, lastSave>>

\* The mappings of the form of /mappings/file/{id}/save in the order of the
\* proposal's headers: the suggested field of each header that has one.
FormMappings(file_headers, column_mappings) ==
    LET mapped == SelectSeq(file_headers, LAMBDA h : h \in DOMAIN column_mappings)
    IN [k \in 1..Len(mapped) |-> <<mapped[k], column_mappings[mapped[k]]>>]

\* POST /mappings/file/{id}/save: 404 without a proposal, 400 without a
\* mapping, 400 when the template_id exists, else create and redirect.
SaveMappingsAsTemplate(fid, template_id) ==
    /\ w["http"].pc = "idle"
    /\ nops > 0
    /\ fid \in DOMAIN files
    /\ nops' = nops - 1
    /\ LET proposal == LoadProposal(fid)
       IN IF proposal = None
          THEN /\ ret' = [ret EXCEPT !.admin = Response("save", template_id, 404)]
               /\ UNCHANGED <<templates, sidecars>>
          ELSE IF FormMappings(proposal[1].file_headers, proposal[1].column_mappings) = <<>>
          THEN /\ ret' = [ret EXCEPT !.admin = Response("save", template_id, 400)]
               /\ UNCHANGED <<templates, sidecars>>
          ELSE IF GetById(template_id) # 0
          THEN /\ ret' = [ret EXCEPT !.admin = Response("save", template_id, 400)]
               /\ UNCHANGED <<templates, sidecars>>
          ELSE /\ RepositoryCreate(
                     [template_id |-> template_id, name |-> "Saved", carrier |-> "",
                      version |-> "1.0.0", file_type |-> "claims", active_flag |-> TRUE,
                      column_mappings |-> FormMappings(proposal[1].file_headers,
                                                       proposal[1].column_mappings)])
               /\ ret' = [ret EXCEPT !.admin = Response("save", template_id, 303)]
    /\ UNCHANGED <<files, disk, rows, errors, proposals, seen, w, nruns, lastSave>>

\* POST /mappings/template/{id}/edit: 404 without the row, else update.
SaveTemplateEdit(i, form) ==
    /\ w["http"].pc = "idle"
    /\ nops > 0
    /\ i \in DOMAIN templates
    /\ nops' = nops - 1
    /\ RepositoryUpdate(i, form)
    /\ ret' = [ret EXCEPT !.admin = Response("edit", templates[i].template_id, 303)]
    /\ UNCHANGED <<files, disk, rows, errors, proposals, seen, w, nruns, lastSave>>

\* DELETE /mappings/template/{id}/delete: 404 without the row, else delete.
DeleteTemplate(i) ==
    /\ w["http"].pc = "idle"
    /\ nops > 0
    /\ i \in DOMAIN templates
    /\ nops' = nops - 1
    /\ RepositoryDelete(i)
    /\ ret' = [ret EXCEPT !.admin = Response("delete", templates[i].template_id, 200)]
    /\ UNCHANGED <<files, disk, rows, errors, proposals, seen, w, nruns, lastSave>>

\* The JSON file of a template is removed from the templates directory by hand.
SidecarRemoved(template_id) ==
    /\ nops > 0
    /\ template_id \in DOMAIN sidecars
    /\ nops' = nops - 1
    /\ sidecars' = [id \in DOMAIN sidecars \ {template_id} |-> sidecars[id]]
    /\ UNCHANGED <<files, disk, rows, errors, proposals, templates, seen, w, nruns,
                   ret, lastSave>>

TemplateAdmin ==
    \/ \E data \in TemplateUploads : UploadTemplate(data)
    \/ \E fid \in DOMAIN files, template_id \in SaveTemplateIds :
          SaveMappingsAsTemplate(fid, template_id)
    \/ \E i \in DOMAIN templates, form \in EditForms : SaveTemplateEdit(i, form)
    \/ \E i \in DOMAIN templates : DeleteTemplate(i)
    \/ \E template_id \in DOMAIN sidecars : SidecarRemoved(template_id)

\* create or update raises: _save_template_to_json raises (the JSON file stays
\* as it was), or the file is written and the commit that follows raises; the
\* row is not written in either case.
RepositoryWriteFails(t, json_written) ==
    /\ sidecars' = IF json_written THEN SaveTemplateToJson(t) ELSE sidecars
    /\ UNCHANGED templates

\* POST /mappings/upload with a new template_id whose create raises: 500.
UploadTemplateFails(data, json_written) ==
    /\ w["http"].pc = "idle"
    /\ nops > 0
    /\ GetById(data.template_id) = 0
    /\ nops' = nops - 1
    /\ RepositoryWriteFails(data, json_written)
    /\ ret' = [ret EXCEPT !.admin = Response("upload", data.template_id, 500)]
    /\ UNCHANGED <<files, disk, rows, errors, proposals, seen, w, nruns, lastSave>>

\* POST /mappings/template/{id}/edit whose update raises: the session is closed
\* without a commit and the request ends with 500.
SaveTemplateEditFails(i, form, json_written) ==
    /\ w["http"].pc = "idle"
    /\ nops > 0
    /\ i \in DOMAIN templates
    /\ nops' = nops - 1
    /\ RepositoryWriteFails([templates[i] EXCEPT !.name = form.name,
                                                 !.file_type = form.file_type,
                                                 !.active_flag = form.active_flag],
                            json_written)
    /\ ret' = [ret EXCEPT !.admin = Response("edit", templates[i].template_id, 500)]
    /\ UNCHANGED <<files, disk, rows, errors, proposals, seen, w, nruns, lastSave>>

\* Failures of the file system and the database during a template write.
TemplateFails ==
    \/ \E data \in TemplateUploads, json_written \in BOOLEAN :
          UploadTemplateFails(data, json_written)
    \/ \E i \in DOMAIN templates, form \in EditForms, json_written \in BOOLEAN :
          SaveTemplateEditFails(i, form, json_written)

(***************************************************************************)
(* Specifications                                                          *)
(***************************************************************************)
Next ==
    \/ \E c \in UploadContents : UploadStart(c)
    \/ PollFetch
    \/ PollConnectFails
    \/ PollSave
    \/ \E x \in {"http", "poller"} : SaveInsert(x)
    \/ \E x \in {"http", "poller"} : SaveFails(x)
    \/ \E x \in {"http", "poller"} : SetReceived(x)
    \/ PollMarkSeen
    \/ PollMarkSeenFails
    \/ \E x \in {"http", "batch"} : ProcBegin(x)
    \/ \E x \in {"http", "batch"} : ProcRaises(x)
    \/ \E x \in {"http", "batch"} :
          /\ w[x].pc = "parse"
          /\ \E answer \in LLMReplies(Headers(w[x].path[1])) : ProcParse(x, answer)
    \/ \E x \in {"http", "batch"} : ProcErrors(x)
    \/ \E x \in {"http", "batch"} : ProcStats(x)
    \/ \E fid \in DOMAIN files : Reprocess(fid)
    \/ BatchEnumerate
    \/ \E fid \in DOMAIN files : DeleteFile(fid)

\* The processes interleave at every commit.
Spec == Init /\ [][Next]_vars

\* One operation at a time: no process starts or continues while another is busy.
OneAtATime == Cardinality({x \in Workers : w[x].pc # "idle"}) <= 1

NextSeq == Next /\ OneAtATime'

SpecSeq == Init /\ [][NextSeq]_vars

\* Failures of the database and the file system during a run.
ProcFails ==
    \/ \E x \in {"http", "batch"} : ProcRowsFail(x)
    \/ \E x \in {"http", "batch"}, stored, written \in BOOLEAN : ProcErrorsFail(x, stored, written)
    \/ \E x \in {"http", "batch"}, written \in BOOLEAN : ProcStatsFail(x, written)

\* Ingestion and processing with failures during a run and with the templates
\* administered meanwhile, one operation at a time.
NextRun == (Next \/ ProcFails \/ TemplateAdmin \/ TemplateFails) /\ OneAtATime'

SpecRun == Init /\ [][NextRun]_vars

\* Ingestion and processing as in Spec, with status updates of the ingestors
\* that fail.
NextIngest == Next \/ \E x \in {"http", "poller"} : SetReceivedFails(x)

SpecIngest == Init /\ [][NextIngest]_vars

\* The poller on its own, on a mailbox in which every message is unread.
InitMail ==
    /\ files = <<>>
    /\ disk = {}
    /\ rows = {}
    /\ errors = {}
    /\ proposals = {}
    /\ templates = <<T1>>
    /\ sidecars = SidecarsOf(<<T1>>)
    /\ seen = {}
    /\ w = [x \in Workers |-> Idle]
    /\ nops = MaxOps
    /\ nruns = 0
    /\ ret = [poller |-> None, batch |-> None, admin |-> None, parse |-> None, load |-> None,
              infer |-> None, match |-> None, validate |-> None, suggest |-> None]
    /\ lastSave = NoSave

NextMail ==
    \/ PollFetch
    \/ PollConnectFails
    \/ PollSave
    \/ SaveInsert("poller")
    \/ SaveFails("poller")
    \/ SetReceived("poller")
    \/ SetReceivedFails("poller")
    \/ PollMarkSeen
    \/ PollMarkSeenFails

SpecMail == InitMail /\ [][NextMail]_vars

\* The web application and the batch job without a mailbox to poll, over a
\* longer horizon.
MaxWebOps == 5

InitWeb ==
    /\ files = <<>>
    /\ disk = {}
    /\ rows = {}
    /\ errors = {}
    /\ proposals = {}
    /\ templates = <<T1>>
    /\ sidecars = SidecarsOf(<<T1>>)
    /\ seen = {}
    /\ w = [x \in Workers |-> Idle]
    /\ nops = MaxWebOps
    /\ nruns = 0
    /\ ret = [poller |-> None, batch |-> None, admin |-> None, parse |-> None, load |-> None,
              infer |-> None, match |-> None, validate |-> None, suggest |-> None]
    /\ lastSave = NoSave

NextWeb ==
    \/ \E c \in UploadContents : UploadStart(c)
    \/ SaveInsert("http")
    \/ SetReceived("http")
    \/ \E x \in {"http", "batch"} : ProcBegin(x)
    \/ \E x \in {"http", "batch"} :
          /\ w[x].pc = "parse"
          /\ \E answer \in LLMReplies(Headers(w[x].path[1])) : ProcParse(x, answer)
    \/ \E x \in {"http", "batch"} : ProcErrors(x)
    \/ \E x \in {"http", "batch"} : ProcStats(x)
    \/ \E fid \in DOMAIN files : Reprocess(fid)
    \/ BatchEnumerate
    \/ \E fid \in DOMAIN files : DeleteFile(fid)

SpecWeb == InitWeb /\ [][NextWeb]_vars

(***************************************************************************)
(* The loader of the JSON files on its own: load_all_from_json called      *)
(* twice on a templates directory and a table.                             *)
(***************************************************************************)
MaxSidecars == 2

\* The names (without .json) of the files that can be in the directory.
SidecarStems == <<"t_claims", "t_odd", "t_prem">>

\* A file that json.load cannot read.
NotJson == [not_json |-> TRUE]

\* A JSON file without the key template_id.
WithoutTemplateId(t) == [k \in DOMAIN TemplateData(t) \ {"template_id"} |-> TemplateData(t)[k]]

\* What a file of the directory can hold: a template under its own or under
\* another template_id, a template without the key, or no JSON at all.
SidecarContents == {TemplateData(T1), TemplateData(T2), WithoutTemplateId(T3), NotJson}

\* The orders in which glob("*.json") can yield the files.
GlobOrders(stems) ==
    {p \in [1..Cardinality(stems) -> stems] :
        \A i, j \in 1..Cardinality(stems) : i # j => p[i] # p[j]}

\* get_by_id on a table: the index of the row, 0 when there is none.
GetByIdIn(tpls, template_id) ==
    LET hits == {i \in DOMAIN tpls : tpls[i].template_id = template_id}
    IN IF hits = {} THEN 0 ELSE CHOOSE i \in hits : \A j \in hits : i <= j

\* The TemplateCreate that load_from_json builds from a file: template_id from
\* the file, from the file name when the file has none.
TemplateFromJson(stem, data) ==
    [template_id |-> IF "template_id" \in DOMAIN data THEN data.template_id ELSE stem,
     name |-> data.name, carrier |-> data.carrier, version |-> data.version,
     file_type |-> data.file_type, active_flag |-> data.active_flag,
     column_mappings |-> data.column_mappings]

\* load_from_json for one file name, on the state st (table, directory, whether
\* an exception was raised): nothing for a file that cannot be read or whose
\* name is a template_id of the table; else create, which writes the JSON file
\* of the new template_id and inserts the row, and raises at the commit when
\* the table has a row with that template_id (the column is unique).
LoadFromJson(st, stem) ==
    IF "not_json" \in DOMAIN st.sidecars[stem] \/ GetByIdIn(st.templates, stem) # 0
    THEN st
    ELSE LET t == TemplateFromJson(stem, st.sidecars[stem])
             written == [id \in DOMAIN st.sidecars \cup {t.template_id} |->
                            IF id = t.template_id THEN TemplateData(t) ELSE st.sidecars[id]]
         IN IF GetByIdIn(st.templates, t.template_id) # 0
            THEN [templates |-> st.templates, sidecars |-> written, raised |-> TRUE]
            ELSE [templates |-> Append(st.templates, t), sidecars |-> written,
                  raised |-> FALSE]

\* load_all_from_json: load_from_json for each file in the order of the glob,
\* until one raises.
RECURSIVE LoadAllFrom(_, _)
LoadAllFrom(st, order) ==
    IF order = <<>> \/ st.raised THEN st
    ELSE LoadAllFrom(LoadFromJson(st, Head(order)), Tail(order))

InitLoad ==
    /\ files = <<>>
    /\ disk = {}
    /\ rows = {}
    /\ errors = {}
    /\ proposals = {}
    /\ templates \in {<<>>, <<T1>>, <<T2>>}
    /\ \E stems \in SUBSET {SidecarStems[i] : i \in 1..(MaxSidecars + 1)} :
          /\ Cardinality(stems) <= MaxSidecars
          /\ sidecars \in [stems -> SidecarContents]
    /\ seen = {}
    /\ w = [x \in Workers |-> Idle]
    /\ nops = 0
    /\ nruns = 0
    /\ ret = [poller |-> None, batch |-> None, admin |-> None, parse |-> None, infer |-> None,
              match |-> None, validate |-> None, suggest |-> None,
              load |-> Some([calls |-> 0, raised |-> FALSE, once |-> <<>>])]
    /\ lastSave = NoSave

\* A call of load_all_from_json; the table after the first call is kept.
LoadAllFromJson ==
    /\ ret.load[1].calls < 2
    /\ ~ret.load[1].raised
    /\ \E order \in GlobOrders(DOMAIN sidecars) :
          LET st == LoadAllFrom([templates |-> templates, sidecars |-> sidecars,
                                 raised |-> FALSE], order)
          IN /\ templates' = st.templates
             /\ sidecars' = st.sidecars
             /\ ret' = [ret EXCEPT !.load =
                          Some([calls |-> ret.load[1].calls + 1, raised |-> st.raised,
                                once |-> IF ret.load[1].calls = 0 THEN st.templates
                                         ELSE ret.load[1].once])]
    /\ UNCHANGED <<files, disk, rows, errors, proposals, seen, w, nops, nruns, lastSave>>

NextLoad == LoadAllFromJson

SpecLoad == InitLoad /\ [][NextLoad]_vars

(***************************************************************************)
(* The template matcher on its own: _find_matching_template called with    *)
(* header lists and file types against tables of templates.                *)
(***************************************************************************)
MaxTemplates == 2

\* The column mappings of the sample template of tests/conftest.py.
SampleMappings == << <<"Policy Number", "policy_number">>,
                     <<"Insured Name", "insured_name">>,
                     <<"Inception Date", "inception_date">>,
                     <<"Expiry Date", "expiry_date">>,
                     <<"Premium Amount", "premium_amount">>,
                     <<"Currency", "currency">>,
                     <<"Claim Amount", "claim_amount">>,
                     <<"Commission Amount", "commission_amount">> >>

TenMappings == SampleMappings \o << <<"Net Premium", "net_premium">>, <<"Broker", "broker">> >>

ElevenMappings == TenMappings \o << <<"Region", "region">> >>

\* Two keys of one mapping that normalize to the same name.
CollidingMappings == << <<"Policy Number", "policy_number">>,
                        <<"policy_number", "policy_number">> >>

MatchMappings == {<<>>, T1.column_mappings, CollidingMappings, SampleMappings,
                  TenMappings, ElevenMappings}

TemplateIds == <<"template_1", "template_2", "template_3", "template_4">>

\* What a row of the templates table holds besides its id.
TemplateShapes == [file_type : {"claims", "premium"}, active_flag : BOOLEAN,
                   column_mappings : MatchMappings]

\* The rows of the templates table in the order the query returns them.
TemplateTable(shapes) ==
    [i \in DOMAIN shapes |-> [template_id |-> TemplateIds[i],
                              file_type |-> shapes[i].file_type,
                              active_flag |-> shapes[i].active_flag,
                              column_mappings |-> shapes[i].column_mappings]]

\* The header lists of the calls (source spellings, in column order).
MatchHeaders == {<<"Policy Number">>,
                 <<"Policy Number", "Premium">>,
                 <<"Policy Number", "Currency">>,
                 <<"Policy Number", "Premium Amount">>,
                 <<"Unknown Column 1", "Unknown Column 2">>,
                 <<"Policy Number", "Insured Name", "Inception Date",
                   "Expiry Date", "Premium Amount", "Currency">>,
                 [i \in 1..8 |-> SampleMappings[i][1]],
                 [i \in 1..10 |-> TenMappings[i][1]],
                 [i \in 1..11 |-> ElevenMappings[i][1]]}

MatchFileTypes == {"", "claims", "premium", "bogus"}

\* Lines 66-71: a file type that is no FileType value filters nothing.
FileTypeEnum(file_type) ==
    IF file_type \in {"claims", "premium", "exposure"} THEN file_type ELSE ""

\* Line 81: the file headers, each normalized.
NormalizedHeaders(file_headers) ==
    [i \in 1..Len(file_headers) |-> NormalizeColumnName(file_headers[i])]

InitMatch ==
    /\ files = <<>>
    /\ disk = {}
    /\ rows = {}
    /\ errors = {}
    /\ proposals = {}
    /\ \E n \in 0..MaxTemplates : \E shapes \in [1..n -> TemplateShapes] :
          /\ templates = TemplateTable(shapes)
          /\ sidecars = SidecarsOf(TemplateTable(shapes))
    /\ seen = {}
    /\ w = [x \in Workers |-> Idle]
    /\ nops = 0
    /\ nruns = 0
    /\ \E h \in MatchHeaders, ft \in MatchFileTypes :
          ret = [poller |-> None, batch |-> None, admin |-> None, parse |-> None, load |-> None, infer |-> None, validate |-> None, suggest |-> None,
                 match |-> Some([file_headers |-> h, file_type |-> ft,
                                 returned |-> FALSE, template |-> NoTemplate])]
    /\ lastSave = NoSave

\* The call of _find_matching_template and what it returned.
MatchCall ==
    /\ ~ret.match[1].returned
    /\ ret' = [ret EXCEPT !.match =
                 Some([ret.match[1] EXCEPT
                         !.returned = TRUE,
                         !.template = FindMatchingTemplate(templates,
                                          NormalizedHeaders(ret.match[1].file_headers),
                                          FileTypeEnum(ret.match[1].file_type))])]
    /\ UNCHANGED <<files, disk, rows, errors, proposals, templates, sidecars, seen, w,
                   nops, nruns, lastSave>>

NextMatch == MatchCall

SpecMatch == InitMatch /\ [][NextMatch]_vars

(***************************************************************************)
(* The file type of a run on its own: the inference from the subject and   *)
(* the candidates _find_matching_template reads for it.                    *)
(***************************************************************************)
\* What a row of the templates table holds besides its id.
InferShapes == [file_type : {"claims", "premium", "exposure"}, active_flag : BOOLEAN,
                column_mappings : {T1.column_mappings}]

InitInfer ==
    /\ files = <<>>
    /\ disk = {}
    /\ rows = {}
    /\ errors = {}
    /\ proposals = {}
    /\ \E n \in 0..MaxTemplates : \E shapes \in [1..n -> InferShapes] :
          /\ templates = TemplateTable(shapes)
          /\ sidecars = SidecarsOf(TemplateTable(shapes))
    /\ seen = {}
    /\ w = [x \in Workers |-> Idle]
    /\ nops = 0
    /\ nruns = 0
    /\ \E subject \in Subjects :
          ret = [poller |-> None, batch |-> None, admin |-> None, parse |-> None, load |-> None,
                 match |-> None, validate |-> None, suggest |-> None,
                 infer |-> Some([subject |-> subject, returned |-> FALSE,
                                 file_type |-> "", candidates |-> <<>>])]
    /\ lastSave = NoSave

\* Lines 217-229 of process_file and 66-75 of _find_matching_template for a
\* file with the subject: the inferred type and the templates that are scanned.
InferCall ==
    /\ ~ret.infer[1].returned
    /\ ret' = [ret EXCEPT !.infer =
                 Some([ret.infer[1] EXCEPT
                         !.returned = TRUE,
                         !.file_type = InferFileType(ret.infer[1].subject),
                         !.candidates =
                             ListActiveTemplates(templates,
                                 FileTypeEnum(InferFileType(ret.infer[1].subject)))])]
    /\ UNCHANGED <<files, disk, rows, errors, proposals, templates, sidecars, seen, w,
                   nops, nruns, lastSave>>

NextInfer == InferCall

SpecInfer == InitInfer /\ [][NextInfer]_vars

(***************************************************************************)
(* The header normalization on its own: _normalize_dataframe_columns       *)
(* called with the column labels of a table as the reader delivers them.   *)
(* Labels are character sequences.                                         *)
(***************************************************************************)
MaxHeaders == 3

\* The column labels that occur.  read_csv and read_excel deliver pairwise
\* distinct labels (a repeated source header "a" arrives as "a.1").
ColumnLabels == {<<"a">>, <<"A">>, <<"a", "_", "1">>, <<"a", ".", "1">>, <<"a", " ">>,
                 <<"b">>, <<"_", "b">>, <<"a", "_", "_", "1">>}

\* The characters the pattern [a-z0-9_] of line 40 accepts, of those that occur.
WordChars == {"a", "b", "c", "e", "i", "l", "m", "p", "q", "r", "u", "w",
              "0", "1", "2", "3", "4", "5", "6", "7", "8", "9", "_"}

\* str.strip(chars) on a character sequence.
RECURSIVE StripChars(_, _)
StripChars(s, chars) ==
    IF s = <<>> THEN <<>>
    ELSE IF s[1] \in chars THEN StripChars(Tail(s), chars)
    ELSE IF s[Len(s)] \in chars THEN StripChars(SubSeq(s, 1, Len(s) - 1), chars)
    ELSE s

\* re.sub(r'_+', '_', s) of line 43.
RECURSIVE CollapseUnderscores(_)
CollapseUnderscores(s) ==
    IF Len(s) < 2 THEN s
    ELSE IF s[1] = "_" /\ s[2] = "_" THEN CollapseUnderscores(Tail(s))
    ELSE <<s[1]>> \o CollapseUnderscores(Tail(s))

\* _normalize_column_name, computed on the characters: strip, lower, replace
\* what is not [a-z0-9_] by an underscore, collapse underscores, strip them.
NormalizeChars(column_name) ==
    IF column_name = <<>> THEN <<>>
    ELSE LET stripped == StripChars(column_name, {" "})
             lowered == [i \in 1..Len(stripped) |-> Lower(stripped[i])]
             replaced == [i \in 1..Len(lowered) |->
                            IF lowered[i] \in WordChars THEN lowered[i] ELSE "_"]
         IN StripChars(CollapseUnderscores(replaced), {"_"})

\* str(n) of the f-string of line 68.
RECURSIVE Decimal(_)
Decimal(n) ==
    LET digits == <<"0", "1", "2", "3", "4", "5", "6", "7", "8", "9">>
    IN IF n < 10 THEN <<digits[n + 1]>>
       ELSE Decimal(n \div 10) \o <<digits[(n % 10) + 1]>>

\* Lines 62-72: the loop over df.columns from position i on, with the two
\* dictionaries; the result is column_mapping.
RECURSIVE ColumnMapping(_, _, _, _)
ColumnMapping(columns, i, seen_normalized, column_mapping) ==
    IF i > Len(columns) THEN column_mapping
    ELSE LET old_col == columns[i]
             normalized == NormalizeChars(old_col)
         IN IF normalized \in DOMAIN seen_normalized
            THEN LET n == seen_normalized[normalized] + 1
                 IN ColumnMapping(columns, i + 1,
                                  DictSet(seen_normalized, normalized, n),
                                  DictSet(column_mapping, old_col,
                                          normalized \o <<"_">> \o Decimal(n)))
            ELSE ColumnMapping(columns, i + 1,
                               DictSet(seen_normalized, normalized, 0),
                               DictSet(column_mapping, old_col, normalized))

\* _normalize_dataframe_columns: df.rename(columns=column_mapping).
NormalizeDataframeColumns(columns) ==
    LET column_mapping == ColumnMapping(columns, 1, <<>>, <<>>)
    IN [i \in 1..Len(columns) |-> column_mapping[columns[i]]]

InitParse ==
    /\ files = <<>>
    /\ disk = {}
    /\ rows = {}
    /\ errors = {}
    /\ proposals = {}
    /\ templates = <<>>
    /\ sidecars = {}
    /\ seen = {}
    /\ w = [x \in Workers |-> Idle]
    /\ nops = 0
    /\ nruns = 0
    /\ \E n \in 1..MaxHeaders : \E columns \in [1..n -> ColumnLabels] :
          /\ \A i, j \in 1..n : i # j => columns[i] # columns[j]
          /\ ret = [poller |-> None, batch |-> None, admin |-> None, load |-> None,
                    infer |-> None, match |-> None, validate |-> None, suggest |-> None,
                    parse |-> Some([columns |-> columns, returned |-> FALSE,
                                    headers |-> <<>>])]
    /\ lastSave = NoSave

\* Line 183 of parse_file: the columns of the table are renamed.
NormalizeCall ==
    /\ ~ret.parse[1].returned
    /\ ret' = [ret EXCEPT !.parse =
                 Some([ret.parse[1] EXCEPT
                         !.returned = TRUE,
                         !.headers = NormalizeDataframeColumns(ret.parse[1].columns)])]
    /\ UNCHANGED <<files, disk, rows, errors, proposals, templates, sidecars, seen, w,
                   nops, nruns, lastSave>>

NextParse == NormalizeCall

SpecParse == InitParse /\ [][NextParse]_vars

(***************************************************************************)
(* The validator on its own: validate_rows called with lists of canonical  *)
(* rows under the default rules.                                           *)
(***************************************************************************)
MaxRows == 2

\* Inception and expiry dates as day numbers.
DatePairs == {<<Some(2), None>>, <<Some(2), Some(2)>>, <<Some(2), Some(1)>>}

\* premium_amount, claim_amount, commission_amount and net_premium of a row.
AmountProfiles == {<<Some(0), None, None, None>>,
                   <<Some(-5), None, None, None>>,
                   <<None, Some(-5), None, None>>,
                   <<Some(0), Some(0), Some(-5), None>>,
                   <<None, None, None, Some(-5)>>,
                   <<Some(-5), Some(-5), Some(-5), Some(-5)>>}

\* The field values of the rows handed to the validator.
RowFields ==
    {[f \in CanonicalFields |->
        CASE f = "policy_number" -> pn
          [] f = "inception_date" -> d[1]
          [] f = "expiry_date" -> d[2]
          [] f = "premium_amount" -> a[1]
          [] f = "claim_amount" -> a[2]
          [] f = "commission_amount" -> a[3]
          [] OTHER -> a[4]]
     : pn \in {None, Some("POL1")}, d \in DatePairs, a \in AmountProfiles}

\* A list of BordereauxRowCreate, row_number = index + 1 as the mapper
\* numbers them.
RowList(fields) ==
    [i \in DOMAIN fields |-> [file_id |-> 1, row_number |-> i, fields |-> fields[i]]]

InitValidate ==
    /\ files = <<>>
    /\ disk = {}
    /\ rows = {}
    /\ errors = {}
    /\ proposals = {}
    /\ templates = <<T1>>
    /\ sidecars = SidecarsOf(<<T1>>)
    /\ seen = {}
    /\ w = [x \in Workers |-> Idle]
    /\ nops = 0
    /\ nruns = 0
    /\ \E n \in 0..MaxRows : \E fields \in [1..n -> RowFields] :
          ret = [poller |-> None, batch |-> None, admin |-> None, parse |-> None, load |-> None, infer |-> None, match |-> None, suggest |-> None,
                 validate |-> Some([rows |-> RowList(fields), returned |-> FALSE,
                                    valid_rows |-> <<>>, error_rows |-> <<>>])]
    /\ lastSave = NoSave

\* The call of validate_rows and the pair it returned.
ValidateCall ==
    /\ ~ret.validate[1].returned
    /\ LET res == ValidateRows(ret.validate[1].rows)
       IN ret' = [ret EXCEPT !.validate =
                    Some([ret.validate[1] EXCEPT !.returned = TRUE,
                                                 !.valid_rows = res.valid,
                                                 !.error_rows = res.errs])]
    /\ UNCHANGED <<files, disk, rows, errors, proposals, templates, sidecars, seen, w,
                   nops, nruns, lastSave>>

NextValidate == ValidateCall

SpecValidate == InitValidate /\ [][NextValidate]_vars

(***************************************************************************)
(* The suggestion specification: suggest_mappings on its own.             *)
(***************************************************************************)
\* Lists of at most max headers without repetition, as the parser delivers them.
SuggestHeaders(max) ==
    UNION {{h \in [1..n -> SuggestHeaderNames] : \A i, j \in 1..n : h[i] = h[j] => i = j}
           : n \in 0..max}

LLMFields == {"policy_number", "premium_amount"}

LowConfidence == 2000

\* A confidence given as a percentage (95) instead of a fraction.
PercentConfidence == 950000

\* Answers that do not keep to the prompt: a column the file does not have, a
\* field that is not canonical, a confidence above 1.
OffPromptAnswers(file_headers) ==
    {[ok |-> TRUE, mappings |-> [h \in {"policy_no"} |-> "policy_number"],
      confidence_scores |-> EmptyDict]} \cup
    {[ok |-> TRUE, mappings |-> [h \in {file_headers[i]} |-> "total_premium"],
      confidence_scores |-> EmptyDict] : i \in 1..Len(file_headers)} \cup
    {[ok |-> TRUE, mappings |-> [h \in {file_headers[i]} |-> "premium_amount"],
      confidence_scores |-> [h \in {file_headers[i]} |-> PercentConfidence]]
       : i \in 1..Len(file_headers)}

\* What the call of the language model can deliver for a header list: an
\* exception, or JSON that maps some headers to fields and scores some of them.
LLMAnswers(file_headers) ==
    {NoAnswer} \cup OffPromptAnswers(file_headers) \cup
    UNION {UNION {{[ok |-> TRUE, mappings |-> m, confidence_scores |-> sc]
                   : m \in [S -> LLMFields]}
                  : sc \in UNION {[R -> {LowConfidence}] : R \in SUBSET S}}
           : S \in SUBSET SeqRange(file_headers)}

InitSuggest ==
    /\ files = <<>>
    /\ disk = {}
    /\ rows = {}
    /\ errors = {}
    /\ proposals = {}
    /\ templates = <<T1>>
    /\ sidecars = SidecarsOf(<<T1>>)
    /\ seen = {}
    /\ w = [x \in Workers |-> Idle]
    /\ nops = 0
    /\ nruns = 0
    /\ \E h \in SuggestHeaders(MaxSuggestHeaders), ai \in BOOLEAN :
         \E answer \in (IF ai THEN LLMAnswers(h) ELSE {NoAnswer}) :
          ret = [poller |-> None, batch |-> None, admin |-> None, parse |-> None, load |-> None, infer |-> None, match |-> None, validate |-> None,
                 suggest |-> Some([file_headers |-> h, should_use_ai |-> ai,
                                   answer |-> answer, returned |-> FALSE,
                                   column_mappings |-> EmptyDict,
                                   confidence_scores |-> EmptyDict])]
    /\ lastSave = NoSave

\* The call of suggest_mappings and the pair it returned.
SuggestCall ==
    /\ ~ret.suggest[1].returned
    /\ LET in == ret.suggest[1]
           res == SuggestMappings(in.file_headers, in.should_use_ai, in.answer)
       IN ret' = [ret EXCEPT !.suggest =
                    Some([in EXCEPT !.returned = TRUE,
                                    !.column_mappings = res.column_mappings,
                                    !.confidence_scores = res.confidence_scores])]
    /\ UNCHANGED <<files, disk, rows, errors, proposals, templates, sidecars, seen, w,
                   nops, nruns, lastSave>>

NextSuggest == SuggestCall

SpecSuggest == InitSuggest /\ [][NextSuggest]_vars

(***************************************************************************)
(* Properties                                                              *)
(***************************************************************************)
Savers == {"http", "poller"}
Runners == {"http", "batch"}
RunSteps == {"begin", "parse", "errors", "stats"}

\* Process x makes the duplicate check of a save_raw_file call in this step.
LooksUp(x) ==
    /\ w[x].pc = IF x = "http" THEN "idle" ELSE "lookup"
    /\ w'[x].op \in {"upload", "poll"}
    /\ w'[x].pc \in {"insert", "received"}

\* C1: two consecutive save calls with the same bytes return the same file_id,
\* the second with is_duplicate = true, and afterwards exactly one stored file
\* and exactly one BordereauxFile row exist for the bytes.  (lastSave is the
\* return of the call before; a call is consecutive to it when its duplicate
\* check comes after that return, with no delete in between.)
C1_TwoSavesOneFile ==
    [][\A x \in Savers :
          (LooksUp(x) /\ lastSave.c = w'[x].c) =>
              /\ w'[x].pc = "received"
              /\ w'[x].dup
              /\ w'[x].fid = lastSave.fid
              /\ Cardinality({id \in DOMAIN files' : files'[id].content_hash = lastSave.c}) = 1
              /\ Cardinality({p \in disk' : p[1] = lastSave.c}) = 1]_vars

\* C2: in every reachable state at most one BordereauxFile row exists per
\* content hash.
C2_OneRowPerHash ==
    \A c \in Contents : Cardinality(FilesWithHash(c)) <= 1

\* The columns and dependent rows of a file that an ingest of stored bytes must
\* leave alone.
Processed(fid) ==
    <<files[fid].status, files[fid].total_rows, files[fid].processed_rows,
      FileRows(fid), FileErrors(fid)>>

\* C3: an ingest (poll attachment or upload) of bytes that are already stored
\* leaves the existing file's status, total_rows, processed_rows, rows and
\* validation errors as they were: every step of such an ingest keeps them.
C3_DuplicateIngestNoChange ==
    [][\A x \in Savers :
          (/\ w[x].dup
           /\ w[x].pc \in {"received"} \cup RunSteps
           /\ w'[x] # w[x]
           /\ w[x].fid \in DOMAIN files
           /\ w[x].fid \in DOMAIN files')
          => Processed(w[x].fid)' = Processed(w[x].fid)]_vars

\* The status edges of one process_file run.
RunEdges ==
    ({RECEIVED, NEW_TEMPLATE_REQUIRED, PROCESSED_OK, PROCESSED_WITH_ERRORS, FAILED}
        \X {PROCESSING})
    \cup ({PROCESSING} \X {PROCESSED_OK, PROCESSED_WITH_ERRORS, NEW_TEMPLATE_REQUIRED, FAILED})

\* C4: a process_file run changes the status of its file only from received,
\* new_template_required, processed_ok, processed_with_errors or failed to
\* processing, and from processing to one of processed_ok,
\* processed_with_errors, new_template_required or failed.
C4_RunStatusEdges ==
    [][\A x \in Runners :
          (/\ w[x].pc \in RunSteps
           /\ w'[x] # w[x]
           /\ w[x].fid \in DOMAIN files
           /\ w[x].fid \in DOMAIN files'
           /\ files'[w[x].fid].status # files[w[x].fid].status)
          => <<files[w[x].fid].status, files'[w[x].fid].status>> \in RunEdges]_vars

\* The edges of the file lifecycle state machine.
LifecycleEdges == RunEdges \cup {<<PENDING, RECEIVED>>}

\* C5: every change of a file's status, by any operation, is an edge of the
\* lifecycle state machine (in particular no file goes back to received).
C5_LifecycleEdges ==
    [][\A fid \in DOMAIN files :
          (fid \in DOMAIN files' /\ files'[fid].content_hash = files[fid].content_hash
           /\ files'[fid].status # files[fid].status)
          => <<files[fid].status, files'[fid].status>> \in LifecycleEdges]_vars

\* Process x ends a run with a matched template: the step that writes the
\* statistics of the run to the file.
WritesStats(x) ==
    /\ w[x].pc = "stats"
    /\ w'[x] # w[x]
    /\ w[x].fid \in DOMAIN files

RunErrors(fid, run) == {e \in errors : e.file_id = fid /\ e.run = run}

\* C6: when a run with a matched template has persisted its rows and errors,
\* the file ends in processed_ok iff the run produced no error record and in
\* processed_with_errors iff it produced at least one; total_rows is the number
\* of rows of the parsed table and processed_rows the number of those rows that
\* passed validation, i.e. the rows for which the run produced no error record.
C6_StatusAndCounts ==
    [][\A x \in Runners :
          WritesStats(x) =>
              LET fid == w[x].fid
                  run == w[x].run
                  table == SourceRows(w[x].path[1])
                  failed == {e.row_index : e \in RunErrors(fid, run)}
              IN /\ (files'[fid].status = PROCESSED_OK) <=> (RunErrors(fid, run) = {})
                 /\ (files'[fid].status = PROCESSED_WITH_ERRORS) <=> (RunErrors(fid, run) # {})
                 /\ files'[fid].total_rows = Len(table)
                 /\ failed \subseteq 0..(Len(table) - 1)
                 /\ files'[fid].processed_rows = Len(table) - Cardinality(failed)]_vars

\* A file processed with errors: three table rows, one persisted, errors stored.
C6_Witness ==
    \E fid \in DOMAIN files :
        /\ files[fid].status = PROCESSED_WITH_ERRORS
        /\ files[fid].processed_at # 0
        /\ files[fid].total_rows = 3
        /\ files[fid].processed_rows = 1
        /\ FileErrors(fid) # {}

\* C7: for every file in processed_ok or processed_with_errors the number of
\* its BordereauxRow rows equals processed_rows, and that number plus the
\* number of distinct row_index values among its errors is at most total_rows.
C7_RowErrorPartition ==
    \A fid \in DOMAIN files :
        files[fid].status \in {PROCESSED_OK, PROCESSED_WITH_ERRORS} =>
            /\ Cardinality(FileRows(fid)) = files[fid].processed_rows
            /\ Cardinality(FileRows(fid))
                 + Cardinality({e.row_index : e \in FileErrors(fid)})
               <= files[fid].total_rows

\* C8: when a reprocess run with a matched template ends, the file's rows and
\* errors are exactly those of this run: nothing written by an earlier run is
\* left.
C8_ReprocessReplaces ==
    [][(WritesStats("http") /\ w["http"].op = "reprocess") =>
          LET fid == w["http"].fid
              run == w["http"].run
          IN /\ \A r \in rows' : r.file_id = fid => r.run = run
             /\ \A e \in errors' : e.file_id = fid => e.run = run]_vars

\* C9: after delete(file_id) on an existing file no BordereauxFile row, no
\* BordereauxRow, no ValidationError references the id and the stored bytes
\* are gone.
C9_DeleteLeavesNothing ==
    [][\A fid \in DOMAIN files :
          DeleteFile(fid) =>
              /\ fid \notin DOMAIN files'
              /\ \A r \in rows' : r.file_id # fid
              /\ \A e \in errors' : e.file_id # fid
              /\ files[fid].file_path \notin disk']_vars

\* C10: after delete(file_id) no proposal file of the id is left, so a proposal
\* lookup for the id finds nothing.
C10_DeleteRemovesProposal ==
    [][\A fid \in DOMAIN files : DeleteFile(fid) => LoadProposal(fid)' = None]_vars

\* The poll returns in this step (after its last attachment).
PollReturns == w["poller"].pc = "seen" /\ w'["poller"].pc = "idle"

\* C11: a message becomes SEEN only in the marking step of a poll, that is after
\* the saves of all attachments, and only if none of its attachments failed; a
\* message with a failed attachment is UNSEEN when the poll returns.
C11_SeenOnlyWhenAllSaved ==
    [][/\ \A m \in 1..Len(Mailbox) :
            (m \notin seen /\ m \in seen') =>
                /\ w["poller"].pc = "seen"
                /\ m \in w["poller"].msgs \ w["poller"].failed
       /\ PollReturns => \A m \in w["poller"].failed : m \notin seen']_vars

\* The contents attached to message m.
MessageContents(m) == SeqRange(Mailbox[m].atts)

\* C12: when a poll returns, a message one of whose attachments failed to save
\* is UNSEEN (so the next poll fetches it again) and a message whose attachments
\* all saved is SEEN once the marking succeeded; every attachment of the poll
\* that has a file has exactly one, in received.
C12_PartialFailureRetried ==
    [][PollReturns =>
          \A m \in w["poller"].msgs :
              /\ m \in w["poller"].failed => m \notin seen'
              /\ (m \notin w["poller"].failed /\ nops' = nops) => m \in seen'
              /\ \A c \in MessageContents(m) :
                    /\ Cardinality({id \in DOMAIN files' : files'[id].content_hash = c}) <= 1
                    /\ \A id \in DOMAIN files' :
                          files'[id].content_hash = c => files'[id].status = RECEIVED]_vars

\* C13: a poll whose connection or login fails creates and changes no
\* BordereauxFile row, stores nothing and marks no message SEEN.
C13_ConnectFailureChangesNothing ==
    [][PollConnectFails => (files' = files /\ disk' = disk /\ seen' = seen)]_vars

\* A poll has failed to connect while a file was stored and a message unread.
C13_Witness ==
    /\ ret.poller = Some(PollRaised)
    /\ DOMAIN files # {}
    /\ Unread # {}

\* The batch run enumerates in this step.
BatchEnumerates == w["batch"].pc = "idle" /\ w'["batch"].op = "batch"

\* The batch run returns in this step, after the process_file call of its last
\* file.
BatchReturns == w["batch"].op = "batch" /\ w'["batch"].pc = "idle"

\* C14: a batch run enumerates exactly the files in received; when it returns,
\* its results hold one outcome per enumerated file, in the order of the
\* enumeration (one process_file call each, whatever the outcome of the calls
\* before), and processed_count = success_count + failed_count = the number of
\* enumerated files.
C14_BatchOutcomes ==
    [][/\ BatchEnumerates =>
            /\ SeqRange(w'["batch"].enum) = {id \in DOMAIN files : files[id].status = RECEIVED}
            /\ Len(w'["batch"].enum) = Cardinality(SeqRange(w'["batch"].enum))
       /\ BatchReturns =>
            LET res == ret'.batch[1]
                enum == w["batch"].enum
            IN /\ [i \in 1..Len(res.results) |-> res.results[i].file_id] = enum
               /\ res.processed_count = Len(enum)
               /\ res.processed_count = res.success_count + res.failed_count
               /\ res.failed_count =
                     Cardinality({i \in 1..Len(res.results) : ~res.results[i].success})]_vars

\* A batch run of two files has returned; the first file failed and the second
\* was processed all the same.
C14_Witness ==
    /\ ret.batch # None
    /\ LET res == ret.batch[1]
       IN /\ res.processed_count = 2
          /\ Len(res.results) = 2
          /\ ~res.results[1].success
          /\ res.results[2].success

(***************************************************************************)
(* Template matcher                                                        *)
(***************************************************************************)
\* The call of the matcher: its headers as a set, the returned template.
MatchReturned == ret.match # None /\ ret.match[1].returned
MatchedHeaders == SeqRange(NormalizedHeaders(ret.match[1].file_headers))
MatchedTemplate == ret.match[1].template
Candidates == ListActiveTemplates(templates, FileTypeEnum(ret.match[1].file_type))
NormalizedKeys(t) == SeqRange(TemplateColumns(t))

\* C15: a returned template T satisfies, for the headers H of the call,
\* normalized(T.keys) = H as sets, or |normalized(T.keys) \cap H| / |T.keys|
\* >= 0.99 and |H| <= 1.10 * |T.keys|; and nothing is returned when no
\* header equals a normalized key of any candidate template.
C15_MatchSoundness ==
    MatchReturned =>
        LET T == MatchedTemplate
            H == MatchedHeaders
            K == NormalizedKeys(T)
            n == Len(T.column_mappings)
        IN /\ T # NoTemplate =>
                \/ K = H
                \/ /\ Cardinality(K \cap H) * 100 >= 99 * n
                   /\ Cardinality(H) * 100 <= 110 * n
           /\ (\A i \in 1..Len(Candidates) : NormalizedKeys(Candidates[i]) \cap H = {})
                => T = NoTemplate

\* C16: when some active template of the file type matches exactly, the
\* returned template is an exact match, whatever the scan order.
C16_ExactBeforeLenient ==
    MatchReturned =>
        LET h == NormalizedHeaders(ret.match[1].file_headers)
        IN (\E i \in 1..Len(Candidates) :
                Len(Candidates[i].column_mappings) > 0 /\ ExactMatch(Candidates[i], h))
            => (MatchedTemplate # NoTemplate /\ ExactMatch(MatchedTemplate, h))

\* C17: when every header of the file, normalized, is a normalized key of
\* an active template of the requested file type, a template is returned,
\* also when the file has fewer columns than the template.
C17_SubsetOfKeysMatches ==
    MatchReturned =>
        ((\E i \in 1..Len(Candidates) : MatchedHeaders \subseteq NormalizedKeys(Candidates[i]))
            => MatchedTemplate # NoTemplate)

(***************************************************************************)
(* Validator                                                               *)
(***************************************************************************)
ValidateReturned == ret.validate # None /\ ret.validate[1].returned
ValidatedRows == ret.validate[1].rows
ValidRows == ret.validate[1].valid_rows
ErrorRows == ret.validate[1].error_rows

\* The error records of the input row at position i (row_index i - 1).
ErrorsOfRow(i) == {k \in 1..Len(ErrorRows) : ErrorRows[k].row_index = i - 1}

NonNegative(v) == v = None \/ v[1] >= 0

\* The rules of the default rule set that a row violates, by rule name.
ViolatedRules(row) ==
    {r \in {"required_field"} : row.fields["policy_number"] = None}
    \cup {r \in {"inception_before_expiry"} :
            /\ row.fields["inception_date"] # None
            /\ row.fields["expiry_date"] # None
            /\ ~(row.fields["inception_date"][1] <= row.fields["expiry_date"][1])}
    \cup {r \in {"premium_non_negative"} : ~NonNegative(row.fields["premium_amount"])}
    \cup {r \in {"claim_non_negative"} : ~NonNegative(row.fields["claim_amount"])}
    \cup {r \in {"commission_non_negative"} : ~NonNegative(row.fields["commission_amount"])}
    \cup {r \in {"net_premium_non_negative"} : ~NonNegative(row.fields["net_premium"])}

\* C18: validate_rows partitions its input: every row is in valid_rows and
\* has no error record of its row_index, or is absent from valid_rows and
\* has one error record per violated rule; valid_rows keeps the input order.
C18_ValidatePartitions ==
    ValidateReturned =>
        /\ \A i \in 1..Len(ValidatedRows) :
              \/ /\ ValidatedRows[i] \in SeqRange(ValidRows)
                 /\ ErrorsOfRow(i) = {}
              \/ /\ ValidatedRows[i] \notin SeqRange(ValidRows)
                 /\ ErrorsOfRow(i) # {}
                 /\ Cardinality(ErrorsOfRow(i)) = Cardinality(ViolatedRules(ValidatedRows[i]))
                 /\ {ErrorRows[k].rule_name : k \in ErrorsOfRow(i)} = ViolatedRules(ValidatedRows[i])
        /\ \A k \in 1..Len(ErrorRows) : ErrorRows[k].row_index \in 0..(Len(ValidatedRows) - 1)
        /\ ValidRows = SelectSeq(ValidatedRows, LAMBDA r : ErrorsOfRow(r.row_number) = {})

\* A call with a row that violates several rules followed by a valid row.
C18_Witness ==
    /\ ValidateReturned
    /\ Len(ValidatedRows) = 2
    /\ Cardinality(ErrorsOfRow(1)) >= 2
    /\ ValidRows = <<ValidatedRows[2]>>

\* The error codes of the input row at position i.
ErrorCodes(i) == {ErrorRows[k].error_code : k \in ErrorsOfRow(i)}

\* C19: under the default rules a row is valid exactly when policy_number
\* is non-null, inception_date and expiry_date are null or inception <=
\* expiry, and each of the four amounts is null or >= 0; the violations carry
\* the codes REQUIRED_FIELD_MISSING, DATE_VALIDATION_FAILED and
\* NUMERIC_VALIDATION_FAILED.
C19_DefaultRules ==
    ValidateReturned =>
        \A i \in 1..Len(ValidatedRows) :
            LET f == ValidatedRows[i].fields
                hasNumber == f["policy_number"] # None
                datesOk == \/ f["inception_date"] = None
                           \/ f["expiry_date"] = None
                           \/ f["inception_date"][1] <= f["expiry_date"][1]
                amountsOk == \A a \in {"premium_amount", "claim_amount",
                                        "commission_amount", "net_premium"} :
                                 NonNegative(f[a])
            IN /\ (ValidatedRows[i] \in SeqRange(ValidRows))
                    <=> (hasNumber /\ datesOk /\ amountsOk)
               /\ ("REQUIRED_FIELD_MISSING" \in ErrorCodes(i)) <=> ~hasNumber
               /\ ("DATE_VALIDATION_FAILED" \in ErrorCodes(i)) <=> ~datesOk
               /\ ("NUMERIC_VALIDATION_FAILED" \in ErrorCodes(i)) <=> ~amountsOk
               /\ ErrorCodes(i) \subseteq {"REQUIRED_FIELD_MISSING", "DATE_VALIDATION_FAILED",
                                           "NUMERIC_VALIDATION_FAILED"}

\* A valid row with a zero amount and equal dates beside a row with all three codes.
C19_Witness ==
    /\ ValidateReturned
    /\ Len(ValidatedRows) = 2
    /\ ValidatedRows[1].fields["premium_amount"] = Some(0)
    /\ ValidatedRows[1].fields["expiry_date"] = Some(2)
    /\ ValidRows = <<ValidatedRows[1]>>
    /\ ErrorCodes(2) = {"REQUIRED_FIELD_MISSING", "DATE_VALIDATION_FAILED",
                        "NUMERIC_VALIDATION_FAILED"}

(***************************************************************************)
(* Mapping suggestions                                                     *)
(***************************************************************************)
SuggestReturned == ret.suggest # None /\ ret.suggest[1].returned
Suggested == ret.suggest[1].column_mappings
Injective(d) == \A a, b \in DOMAIN d : d[a] = d[b] => a = b

\* C20: in every proposal of suggest_mappings, heuristic or from the
\* language model, no canonical field is the target of two headers.
C20_OneHeaderPerField == SuggestReturned => Injective(Suggested)

(***************************************************************************)
(* Runs of process_file                                                    *)
(***************************************************************************)
\* The run of process x is at its parse step, the file is there and parses,
\* and no active template matches it.
NoTemplateRun(x) ==
    /\ w[x].pc = "parse"
    /\ w[x].fid \in DOMAIN files
    /\ w[x].path \in disk
    /\ Parseable(w[x].path[1])
    /\ FindMatchingTemplate(templates, Headers(w[x].path[1]),
                            InferFileType(files[w[x].fid].subject)) = NoTemplate

\* The proposal the heuristic gives for the file of the run of x.
HeuristicProposal(x) ==
    ProposalData(w[x].fid, w[x].run, Headers(w[x].path[1]),
                 HeuristicMappings(Headers(w[x].path[1])))

\* C21: when no template matches and the call of the language model fails, the
\* run still writes the proposal of the heuristic, sets new_template_required
\* with proposal_path, leaves error_message alone and returns success.
C21_LLMFailureFallsBack ==
    [][\A x \in {"http", "batch"} :
          (NoTemplateRun(x) /\ ProcParse(x, NoAnswer)) =>
              /\ proposals' = proposals \cup {HeuristicProposal(x)}
              /\ files'[w[x].fid].status = NEW_TEMPLATE_REQUIRED
              /\ files'[w[x].fid].proposal_path = <<w[x].fid, w[x].run>>
              /\ files'[w[x].fid].error_message = files[w[x].fid].error_message
              /\ w'[x] = Finish(x, TRUE, NEW_TEMPLATE_REQUIRED)
              /\ ret' = Returned(x, TRUE, NEW_TEMPLATE_REQUIRED)]_vars

\* A batch run has returned success and new_template_required for a file whose
\* proposal is the one of the heuristic, not an answer of the language model.
C21_Witness ==
    /\ ret.batch # None
    /\ \E i \in 1..Len(ret.batch[1].results) :
         LET r == ret.batch[1].results[i]
         IN /\ r.success /\ r.status = NEW_TEMPLATE_REQUIRED
            /\ r.file_id \in DOMAIN files
            /\ files[r.file_id].status = NEW_TEMPLATE_REQUIRED
            /\ \E p \in proposals :
                 /\ files[r.file_id].proposal_path = <<p.file_id, p.ts>>
                 /\ p.column_mappings = HeuristicMappings(p.file_headers).column_mappings
                 /\ p.column_mappings # EmptyDict
                 /\ "policy_number" \in {p.column_mappings[h] : h \in DOMAIN p.column_mappings}

\* The run of process x fails in this step, in its template branch, and the
\* database accepts the status the handler writes.
RunFails(x) ==
    \/ ProcRowsFail(x)
    \/ \E stored \in BOOLEAN : ProcErrorsFail(x, stored, TRUE)
    \/ ProcStatsFail(x, TRUE)

\* C22: rows, error records and statistics of a run are one transaction: when a
\* run with a matched template fails at any step, the file ends in failed and
\* no row and no error record of that run is visible afterwards.
C22_RunIsOneTransaction ==
    [][\A x \in Runners :
          RunFails(x) =>
              /\ files'[w[x].fid].status = FAILED
              /\ \A r \in rows' : r.file_id = w[x].fid => r.run # w[x].run
              /\ \A e \in errors' : e.file_id = w[x].fid => e.run # w[x].run]_vars

(***************************************************************************)
(* Templates                                                               *)
(***************************************************************************)
\* The file has a proposal with at least one suggested mapping.
HasMappedProposal(fid) ==
    /\ LoadProposal(fid) # None
    /\ FormMappings(LoadProposal(fid)[1].file_headers,
                    LoadProposal(fid)[1].column_mappings) # <<>>

\* C23: creating a template under a template_id that exists, by upload or by
\* saving the mappings of a proposal, is answered with 409 and changes neither
\* the table nor the JSON files.
C23_DuplicateTemplateRejected ==
    [][/\ \A data \in TemplateUploads :
            (GetById(data.template_id) # 0 /\ UploadTemplate(data)) =>
                /\ ret'.admin = Response("upload", data.template_id, 409)
                /\ UNCHANGED <<templates, sidecars>>
       /\ \A fid \in DOMAIN files, template_id \in SaveTemplateIds :
            (/\ GetById(template_id) # 0
             /\ HasMappedProposal(fid)
             /\ SaveMappingsAsTemplate(fid, template_id)) =>
                /\ ret'.admin = Response("save", template_id, 409)
                /\ UNCHANGED <<templates, sidecars>>]_vars

\* The columns of a template that its JSON file repeats.
SidecarColumns == {"name", "carrier", "file_type", "column_mappings", "version",
                   "active_flag"}

\* The template_id values of the templates installed, uploaded and saved.
AdminTemplateIds == {T1.template_id} \cup {t.template_id : t \in TemplateUploads}
                        \cup SaveTemplateIds

\* Row and JSON file of a template_id exist together and agree.
RowMatchesSidecar(template_id) ==
    /\ (GetById(template_id) # 0) <=> (template_id \in DOMAIN sidecars)
    /\ GetById(template_id) # 0 =>
         \A k \in SidecarColumns :
            sidecars[template_id][k] = templates[GetById(template_id)][k]

C25_MissingFileChangesNothing ==
    [][\A x \in Runners :
          (w[x].fid \notin DOMAIN files /\ ProcBegin(x)) =>
              /\ UNCHANGED <<files, disk, rows, errors, proposals, templates, sidecars>>
              /\ w'[x] = Finish(x, FALSE, "")
              /\ ret' = Returned(x, FALSE, "")]_vars

\* A batch run has reported the failure of a file whose row was deleted after
\* the run had enumerated it; nothing is stored for the id.
C25_Witness ==
    /\ ret.batch # None
    /\ \E i \in 1..Len(ret.batch[1].results) :
         LET id == ret.batch[1].results[i].file_id
         IN /\ ~ret.batch[1].results[i].success
            /\ id \notin DOMAIN files
            /\ FileRows(id) = {} /\ FileErrors(id) = {}
            /\ LoadProposal(id) = None

(***************************************************************************)
(* Duplicate saves and files in processing                                 *)
(***************************************************************************)
\* C26: a save call that finds a file with the hash of its bytes returns that
\* file's id and current status and leaves the stored files and every column
\* of every row as they are, whatever sender and subject the call carries.
C26_DuplicateSaveChangesNothing ==
    [][\A x \in Savers :
          (LooksUp(x) /\ w'[x].dup) =>
              /\ UNCHANGED <<files, disk, rows, errors>>
              /\ lastSave'.fid = w'[x].fid
              /\ lastSave'.fid \in DOMAIN files
              /\ files[lastSave'.fid].content_hash = w'[x].c
              /\ lastSave'.status = files[lastSave'.fid].status]_vars

\* An upload has found its bytes stored by the poller under another sender and
\* subject, in a file that is past received, and got that status returned.
C26_Witness ==
    /\ w["http"].op = "upload" /\ w["http"].pc = "received" /\ w["http"].dup
    /\ w["http"].fid \in DOMAIN files
    /\ files[w["http"].fid].sender = "mail"
    /\ files[w["http"].fid].subject # WebUploadSubject
    /\ lastSave.fid = w["http"].fid
    /\ lastSave.status = files[w["http"].fid].status
    /\ lastSave.status \in {PROCESSED_WITH_ERRORS, FAILED}

\* Process x is inside a process_file run on the file, after the run set
\* PROCESSING, and takes a step.
RunsOn(x, fid) ==
    /\ w[x].pc \in {"parse", "errors", "stats"}
    /\ w[x].fid = fid
    /\ w'[x] # w[x]

\* C27: while a file is in processing only a process_file run on it writes its
\* status: every step that takes a file out of processing is a step of such a
\* run, under any interleaving of polls, uploads, requests and the batch job.
C27_ProcessingIsExclusive ==
    [][\A fid \in DOMAIN files :
          (/\ files[fid].status = PROCESSING
           /\ fid \in DOMAIN files'
           /\ files'[fid].status # PROCESSING)
          => \E x \in Runners : RunsOn(x, fid)]_vars

\* The process_file call of process x returns in this step, after it had set
\* PROCESSING.
Returns(x) ==
    /\ w[x].pc \in {"parse", "errors", "stats"}
    /\ \/ w'[x].pc = "idle"
       \/ x = "batch" /\ w'[x].pc = "begin"

FinalStatuses == {PROCESSED_OK, PROCESSED_WITH_ERRORS, NEW_TEMPLATE_REQUIRED, FAILED}

\* C28: when a process_file call on an existing file returns, with no other
\* operation on the file meanwhile, the file's row is there, its status is
\* processed_ok, processed_with_errors, new_template_required or failed, never
\* processing, and a failed file has an error_message.
C28_RunEndsInFinalStatus ==
    [][\A x \in Runners :
          (Returns(x) /\ w[x].fid \in DOMAIN files) =>
              /\ w[x].fid \in DOMAIN files'
              /\ files'[w[x].fid].status \in FinalStatuses
              /\ files'[w[x].fid].status = FAILED =>
                     files'[w[x].fid].error_message # ""]_vars

(***************************************************************************)
(* Matching at the time of the run                                         *)
(***************************************************************************)
\* The templates a run on the file may use: rows of the table that are active,
\* of the file type inferred from the subject when one is inferred, and whose
\* columns match the headers of the file.
Usable(fid, c) ==
    {t \in SeqRange(templates) :
        /\ t.active_flag
        /\ InferFileType(files[fid].subject) # "" =>
               t.file_type = InferFileType(files[fid].subject)
        /\ TemplateSelected(t, Headers(c))}

\* The parse step of process x on a stored file that parses.
ParsesFile(x) ==
    /\ w[x].pc = "parse"
    /\ w[x].fid \in DOMAIN files
    /\ w[x].path \in disk
    /\ Parseable(w[x].path[1])
    /\ \E answer \in LLMReplies(Headers(w[x].path[1])) : ProcParse(x, answer)

\* C29: a run maps a file only with a template that is, at the time of the
\* run, a row of the table, active, and of the file type inferred from the
\* subject when one is inferred; when no such template matches (the only one
\* was deactivated or deleted) the run ends in new_template_required.
C29_MatchesOnlyActiveTemplates ==
    [][\A x \in Runners :
          ParsesFile(x) =>
              /\ w'[x].pc = "errors" => w'[x].tpl \in Usable(w[x].fid, w[x].path[1])
              /\ Usable(w[x].fid, w[x].path[1]) = {} =>
                    /\ files'[w[x].fid].status = NEW_TEMPLATE_REQUIRED
                    /\ rows' = rows]_vars

\* A file has rows of a run with the template t_claims; the template was then
\* deactivated or deleted and a later run left the file in new_template_required
\* with a proposal.
C29_Witness ==
    /\ \A t \in SeqRange(templates) : t.template_id = "t_claims" => ~t.active_flag
    /\ \E fid \in DOMAIN files :
         /\ FileRows(fid) # {}
         /\ files[fid].status = NEW_TEMPLATE_REQUIRED
         /\ LoadProposal(fid) # None
         /\ \A r \in FileRows(fid) : r.run < LoadProposal(fid)[1].ts

(***************************************************************************)
(* Shape of a proposal                                                     *)
(***************************************************************************)
SuggestedScores == ret.suggest[1].confidence_scores

\* C30: in every proposal, heuristic or from the language model, each key of
\* column_mappings is a header of the file, each value is one of the 13
\* canonical fields, each mapped header has a confidence between min_confidence
\* and 1, and confidence_scores has exactly the keys of column_mappings.
C30_ProposalWellFormed ==
    SuggestReturned =>
        /\ DOMAIN Suggested \subseteq SeqRange(ret.suggest[1].file_headers)
        /\ \A h \in DOMAIN Suggested : Suggested[h] \in SeqRange(CANONICAL_FIELDS)
        /\ DOMAIN SuggestedScores = DOMAIN Suggested
        /\ \A h \in DOMAIN SuggestedScores :
              SuggestedScores[h] >= MinConfidence /\ SuggestedScores[h] <= 10000

(***************************************************************************)
(* Runs without a template                                                 *)
(***************************************************************************)
\* The columns of a file row other than status and proposal_path.
KeptColumns == {"content_hash", "file_path", "error_message", "total_rows",
                "processed_rows", "processed_at", "sender", "subject"}

\* A step of a run of process x that finds no template: the step that sets
\* PROCESSING, or the parse step that writes the proposal.
NoTemplateStep(x) ==
    \/ w[x].fid \in DOMAIN files /\ ProcBegin(x)
    \/ NoTemplateRun(x) /\ \E answer \in LLMReplies(Headers(w[x].path[1])) : ProcParse(x, answer)

C32_RowBeforeSidecar ==
    [][/\ \A data \in TemplateUploads :
            /\ UploadTemplateFails(data, FALSE) =>
                  /\ GetById(data.template_id)' # 0
                  /\ ret'.admin = Response("upload", data.template_id, 201)
            /\ UploadTemplateFails(data, TRUE) => sidecars' = sidecars
       /\ \A i \in DOMAIN templates, id \in AdminTemplateIds, form \in EditForms :
            templates[i].template_id = id =>
                /\ SaveTemplateEditFails(i, form, FALSE) =>
                      /\ templates'[i].name = form.name
                      /\ ret'.admin = Response("edit", id, 303)
                /\ SaveTemplateEditFails(i, form, TRUE) => sidecars' = sidecars]_vars

(***************************************************************************)
(* Loading the JSON files                                                  *)
(***************************************************************************)
\* C33: load_all_from_json run a second time, right after a first run that
\* returned, raises no error and leaves the table as the first run left it,
\* whatever the files of the directory hold.
C33_LoadTwiceIsLoadOnce ==
    (ret.load # None /\ ret.load[1].calls = 2) =>
        /\ ~ret.load[1].raised
        /\ templates = ret.load[1].once

(***************************************************************************)
(* The file type inferred from the subject                                 *)
(***************************************************************************)
InferReturned == ret.infer # None /\ ret.infer[1].returned

\* The subject of the call in lower case.
InferSubjectLower ==
    [i \in 1..Len(Spelling(ret.infer[1].subject)) |-> Lower(Spelling(ret.infer[1].subject)[i])]

\* The word occurs in the subject of the call, whatever the case of the subject.
HasWord(word) ==
    \E i \in 1..Len(InferSubjectLower) :
        /\ i + Len(word) - 1 <= Len(InferSubjectLower)
        /\ \A k \in 1..Len(word) : InferSubjectLower[i + k - 1] = word[k]

ActiveTemplates == SelectSeq(templates, LAMBDA t : t.active_flag)

\* C34: the file type of a run is claims when the subject contains "claim" in
\* any case, else premium when it contains "premium", else exposure when it
\* contains "exposure", else none; with a type the candidates are the active
\* templates of that type, with none (as for a web upload) every active
\* template is a candidate.
C34_FileTypeFromSubject ==
    InferReturned =>
        /\ ret.infer[1].file_type =
              (IF HasWord(<<"c", "l", "a", "i", "m">>) THEN "claims"
               ELSE IF HasWord(<<"p", "r", "e", "m", "i", "u", "m">>) THEN "premium"
               ELSE IF HasWord(<<"e", "x", "p", "o", "s", "u", "r", "e">>) THEN "exposure"
               ELSE "")
        /\ ret.infer[1].subject \in {WebUploadSubject, ""} => ret.infer[1].file_type = ""
        /\ ret.infer[1].file_type = "" => ret.infer[1].candidates = ActiveTemplates
        /\ ret.infer[1].file_type # "" =>
              ret.infer[1].candidates =
                  SelectSeq(ActiveTemplates, LAMBDA t : t.file_type = ret.infer[1].file_type)

\* A subject with premium before claims gave claims, and of an active premium
\* and an active claims template only the claims template is a candidate.
C34_Witness ==
    /\ InferReturned
    /\ ret.infer[1].subject = "Premium and Claims"
    /\ ret.infer[1].file_type = "claims"
    /\ Len(templates) = 2
    /\ templates[1].file_type = "premium" /\ templates[1].active_flag
    /\ templates[2].file_type = "claims" /\ templates[2].active_flag
    /\ ret.infer[1].candidates = <<templates[2]>>

(***************************************************************************)
(* Files in pending                                                        *)
(***************************************************************************)
\* No ingestor is between the save and the status update of the file.
IngestEnded(fid) == \A y \in Savers : ~(w[y].pc = "received" /\ w[y].fid = fid)

\* C35: when the ingest of an attachment or of an uploaded file has set the
\* status, the file is not in pending; and a file left in pending by an ingest
\* that failed between the save and the status update leaves pending with the
\* next ingest of the same bytes.
C35_PendingOnlyDuringIngest ==
    [][\A x \in Savers :
          SetReceived(x) =>
              /\ w[x].fid \in DOMAIN files' => files'[w[x].fid].status # PENDING
              /\ w[x].dup =>
                    \A fid \in FilesWithHash(w[x].c) :
                        (files[fid].status = PENDING /\ IngestEnded(fid)) =>
                            files'[fid].status # PENDING]_vars

(***************************************************************************)
(* Overlapping runs on one file                                            *)
(***************************************************************************)
\* Process x ends a run with a template on a file on which a run that began
\* later has stored rows and has returned: the two runs overlapped and both
\* have returned after this step.
EndsOverlappedRun(x) ==
    /\ ProcStats(x)
    /\ w[x].fid \in DOMAIN files
    /\ \E r \in FileRows(w[x].fid) : r.run > w[x].run
    /\ \A y \in Runners \ {x} : ~(w[y].fid = w[x].fid /\ w[y].pc \in {"parse", "errors", "stats"})

\* C36: when two runs on one file overlap, the last writer wins: once both
\* have returned, the file's rows and error records are those of one of the
\* two runs alone, and the number of its rows is processed_rows.
C36_LastWriterWins ==
    [][\A x \in Runners :
          EndsOverlappedRun(x) =>
              /\ Cardinality(FileRows(w[x].fid))' = files'[w[x].fid].processed_rows
              /\ \E run \in 1..nruns :
                    /\ \A r \in FileRows(w[x].fid)' : r.run = run
                    /\ \A e \in FileErrors(w[x].fid)' : e.run = run]_vars

(***************************************************************************)
(* Rows and stored bytes                                                   *)
(***************************************************************************)
\* C37: the file_path of every BordereauxFile row names a stored file: save
\* writes the bytes before the row, and delete leaves no row whose bytes it
\* has unlinked, also when the delete of the row fails.
C37_RowHasStoredBytes ==
    \A fid \in DOMAIN files : files[fid].file_path \in disk

(***************************************************************************)
(* Files waiting for a template                                            *)
(***************************************************************************)
\* The proposal files that proposal_path of the file names.
ProposalsAt(fid) ==
    {p \in proposals : files[fid].proposal_path = <<p.file_id, p.ts>>}

\* The file's proposal_path names a proposal of this file with the headers
\* parsed from the file's bytes.
HasOwnProposal(fid) ==
    /\ files[fid].proposal_path # None
    /\ ProposalsAt(fid) # {}
    /\ \A p \in ProposalsAt(fid) :
          /\ p.file_id = fid
          /\ p.file_headers = Headers(files[fid].content_hash)

\* C38: a file in new_template_required has a proposal_path, which names a
\* proposal file with the file's id and the headers parsed from the file's
\* bytes; the step that sets the status sets proposal_path to the proposal
\* written in that step.
C38_NewTemplateRequiredHasProposal ==
    /\ [](\A fid \in DOMAIN files :
            files[fid].status = NEW_TEMPLATE_REQUIRED => HasOwnProposal(fid))
    /\ [][\A fid \in DOMAIN files :
            (/\ fid \in DOMAIN files'
             /\ files'[fid].status = NEW_TEMPLATE_REQUIRED
             /\ files'[fid].status # files[fid].status) =>
                /\ files'[fid].proposal_path # None
                /\ files'[fid].proposal_path # files[fid].proposal_path
                /\ \E p \in proposals' \ proposals :
                      files'[fid].proposal_path = <<p.file_id, p.ts>>]_vars

ParseReturned == ret.parse # None /\ ret.parse[1].returned

\* The number of earlier columns with the normalized name of column i.
EarlierOccurrences(columns, i) ==
    Cardinality({j \in 1..(i - 1) : NormalizeChars(columns[j]) = NormalizeChars(columns[i])})

\* Every header is the normalized name of its column, with _k appended at the
\* k-th later occurrence of that name.
RenamedInSourceOrder ==
    ParseReturned =>
        LET columns == ret.parse[1].columns
            headers == ret.parse[1].headers
        IN /\ Len(headers) = Len(columns)
           /\ \A i \in 1..Len(columns) :
                 headers[i] = IF EarlierOccurrences(columns, i) = 0
                              THEN NormalizeChars(columns[i])
                              ELSE NormalizeChars(columns[i]) \o <<"_">> \o
                                       Decimal(EarlierOccurrences(columns, i))

\* C39: after the header normalization the headers of a table are pairwise
\* distinct: the k-th later occurrence of a normalized name n is n_k, in
\* source order, and no renamed header equals another header of the table.
C39_HeadersPairwiseDistinct ==
    /\ RenamedInSourceOrder
    /\ ParseReturned =>
          \A i, j \in 1..Len(ret.parse[1].headers) :
              i # j => ret.parse[1].headers[i] # ret.parse[1].headers[j]

\* The messages that carry no allow-listed attachment.
NoAttachment == {m \in 1..Len(Mailbox) : Mailbox[m].atts = <<>>}

\* The number of attachments the messages of a set carry.
RECURSIVE AttachmentCount(_)
AttachmentCount(ms) ==
    IF ms = {} THEN 0
    ELSE LET m == CHOOSE x \in ms : TRUE
         IN Len(Mailbox[m].atts) + AttachmentCount(ms \ {m})

\* The marking at the end of a poll leaves out the messages without an
\* attachment, the results of a poll count attachments and marked messages
\* of the other messages only, and a poll that finds no other message unread
\* saves nothing and returns zeros.
CountsOnlyAttachments ==
    [][/\ (w["poller"].pc = "seen" /\ w'["poller"].pc = "idle") =>
              (seen' \ seen) \cap NoAttachment = {}
       /\ (ret'.poller # ret.poller /\ ~ret'.poller[1].raised) =>
              /\ ret'.poller[1].emails_marked_seen <=
                     Cardinality((1..Len(Mailbox)) \ NoAttachment)
              /\ ret'.poller[1].processed_count + ret'.poller[1].duplicate_count
                     + ret'.poller[1].failed_count <=
                     AttachmentCount((1..Len(Mailbox)) \ NoAttachment)
       /\ (w["poller"].pc = "idle" /\ Unread \subseteq NoAttachment) =>
              /\ w'["poller"].pc = "idle"
              /\ ret'.poller # ret.poller => ret'.poller \in {Some(PollResults), Some(PollRaised)}]_vars

\* C40: an unread message without an allow-listed attachment is never marked
\* SEEN by the poller and adds nothing to the counters of a poll: it stays
\* UNSEEN, so that every later poll fetches it again.
C40_NoAttachmentStaysUnseen ==
    /\ CountsOnlyAttachments
    /\ [][\A m \in NoAttachment : m \notin seen => m \notin seen']_vars

====
